---- MODULE Spec2Model ----
(***************************************************************************)
(* SPADA auto-attendance: the evaluation pass of spda.py (run_main), its   *)
(* flag files, and the pause commands of the chat bots that write them.    *)
(*                                                                         *)
(* Strings are sequences of atoms.  An atom is a piece of text without     *)
(* whitespace and without "_" inside, or one of the separators " ", "\t"   *)
(* and "_", or a fixed literal of the code ("pause_user_", ".flag", ...).  *)
(* Concatenation is \o, str.startswith is IsPrefix, `a in b` is Contains.  *)
(***************************************************************************)
EXTENDS Naturals, Integers, Sequences, FiniteSets, TLC

VARIABLES
    now,         \* datetime.now(): [day |-> day number, tod |-> minute of the day]
    env,         \* the accounts of .env, in index order: [username, schedule_file]
    files,       \* schedule files by path
    pauseFlags,  \* file names in FLAG_DIR
    attFlags,    \* file names in ATTENDANCE_FLAG_DIR
    pc,          \* run_main: "idle", "eval", "gather", "done", "crashed"
    users,       \* run_main: the list load_users() returned
    outcome,     \* run_main: what the loop did with users[1..Len(outcome)]
    stagger,     \* run_main: the stagger counter
    tasks,       \* run_main: the coroutines appended to `tasks`
    sem,         \* asyncio.Semaphore: free slots
    waiters,     \* asyncio.Semaphore: tasks blocked in acquire, first come first
    sent,        \* notify_user calls of this pass, per account of `users`
    succeeded,   \* history: (username, course, date) for which the actor returned True
    failures,    \* history: retriable failures of today per (username, course, date)
    rejected,    \* history: usernames whose login the site rejected
    trace        \* history of the pause manager calls (SpecPause)

vars == <<now, env, files, pauseFlags, attFlags, pc, users, outcome, stagger,
          tasks, sem, waiters, sent, succeeded, failures, rejected, trace>>

passVars == <<pc, users, outcome, stagger, tasks, sem, waiters, sent>>
histVars == <<succeeded, failures, rejected>>

-----------------------------------------------------------------------------
(* Bounds of the model *)

NumDays == 2
GateUsers == 5
MaxCalls == 3

(* Program constants *)

SemaphoreCap == 4
WindowMinutes == 15
StaggerStep == 2
MaxAttempts == 2

-----------------------------------------------------------------------------
(* Strings *)

Whitespace == {" ", "\t"}

IsPrefix(p, s) == Len(p) <= Len(s) /\ SubSeq(s, 1, Len(p)) = p

Contains(s, p) ==
    \E i \in 1..Len(s) : i + Len(p) - 1 <= Len(s) /\ SubSeq(s, i, i + Len(p) - 1) = p

RECURSIVE lstrip(_)
lstrip(s) ==
    IF s # <<>> /\ Head(s) \in Whitespace THEN lstrip(Tail(s)) ELSE s

RECURSIVE rstrip(_)
rstrip(s) ==
    IF s # <<>> /\ s[Len(s)] \in Whitespace
    THEN rstrip(SubSeq(s, 1, Len(s) - 1))
    ELSE s

strip(s) == rstrip(lstrip(s))

\* re.sub(r"\s+", "_", s): every maximal run of whitespace becomes one "_"
RECURSIVE re_sub_ws(_)
re_sub_ws(s) ==
    IF s = <<>> THEN <<>>
    ELSE IF Head(s) \in Whitespace THEN <<"_">> \o re_sub_ws(lstrip(Tail(s)))
    ELSE <<Head(s)>> \o re_sub_ws(Tail(s))

_safe(name) == re_sub_ws(strip(name))

-----------------------------------------------------------------------------
(* The clock *)

\* strftime("%Y-%m-%d") of the days of the model; day 1 is a Monday
Dates == <<"2024-05-06", "2024-05-07", "2024-05-08", "2024-05-09",
           "2024-05-10", "2024-05-11", "2024-05-12">>

EnglishDays == <<"Monday", "Tuesday", "Wednesday", "Thursday",
                 "Friday", "Saturday", "Sunday">>

DateStr(t) == Dates[((t.day - 1) % 7) + 1]

\* now.strftime("%A")
WeekdayName(t) == EnglishDays[((t.day - 1) % 7) + 1]

day_map ==
    [d \in {"Monday", "Tuesday", "Wednesday", "Thursday", "Friday", "Saturday", "Sunday"} |->
        CASE d = "Monday" -> "Senin"
          [] d = "Tuesday" -> "Selasa"
          [] d = "Wednesday" -> "Rabu"
          [] d = "Thursday" -> "Kamis"
          [] d = "Friday" -> "Jumat"
          [] d = "Saturday" -> "Sabtu"
          [] d = "Sunday" -> "Minggu"]

\* the instants of a day at which the model looks at the system:
\* 08:50, 09:00 and 09:16
ClockTicks == <<530, 540, 556>>

-----------------------------------------------------------------------------
(* Timetables *)

\* a row of csv.DictReader; Time "HH:MM - HH:MM" is kept as its two instants,
\* sep says whether split(" - ") yields two parts, ok whether, besides, strptime
\* accepts the first part; cells is the number of cells on the line
Row(course, day, start, end) ==
    [CourseName |-> course, Day |-> day, cells |-> 3,
     Time |-> [ok |-> TRUE, sep |-> TRUE, start |-> start, end |-> end]]

\* a row whose Time cell is not "HH:MM - HH:MM": without the separator ("TBA"), or
\* with it and a first part that is no time ("9am - 10:30")
BadRow(course, day, sep) ==
    [CourseName |-> course, Day |-> day, cells |-> 3,
     Time |-> [ok |-> FALSE, sep |-> sep, start |-> 0, end |-> 0]]

\* a line with two cells: csv.DictReader sets Time to None, on which .split raises
ShortRow(course, day) ==
    [CourseName |-> course, Day |-> day, cells |-> 2,
     Time |-> [ok |-> FALSE, sep |-> FALSE, start |-> 0, end |-> 0]]

\* a line with a fourth cell: csv.DictReader keeps it under the key None, the
\* three named cells are as in a row of three
LongRow(course, day, start, end) ==
    [CourseName |-> course, Day |-> day, cells |-> 4,
     Time |-> [ok |-> TRUE, sep |-> TRUE, start |-> start, end |-> end]]

None == <<>>

Min(S) == CHOOSE x \in S : \A y \in S : x <= y

\* mutant: the last minute of the window is left out
InWindow_exclusive(entry, today, tod) ==
    /\ entry.Day = today
    /\ entry.Time.ok
    /\ entry.Time.start <= tod
    /\ tod < entry.Time.start + WindowMinutes

InWindow(entry, today, tod) ==
    /\ entry.Day = today
    /\ entry.Time.ok
    /\ entry.Time.start <= tod
    /\ tod <= entry.Time.start + WindowMinutes

get_current_class(schedule, t) ==
    LET today == day_map[WeekdayName(t)]
        hits == {i \in 1..Len(schedule) : InWindow(schedule[i], today, t.tod)}
    IN  IF hits = {} THEN None ELSE schedule[Min(hits)].CourseName

\* discordbot.get_next_class raises: open() fails, or a line has more than three
\* cells ("course, day, time_str = parts" is outside the try)
discord_get_next_class_raises(file, t) ==
    \/ file.st = "unreadable"
    \/ file.st = "ok" /\ \E i \in 1..Len(file.rows) : file.rows[i].cells > 3

\* telegbot.get_next_class raises: as in discordbot, or the Time cell of a line of
\* three cells does not split at " - " into two parts (the split is outside the
\* try as well)
get_next_class_raises(file, t) ==
    \/ discord_get_next_class_raises(file, t)
    \/ file.st = "ok" /\ \E i \in 1..Len(file.rows) :
                            file.rows[i].cells = 3 /\ ~file.rows[i].Time.sep

\* mutant: a row that starts now counts as the next one
get_next_class_not_strict(file, t) ==
    IF file.st # "ok" \/ file.rows = <<>> THEN None
    ELSE LET later == {i \in 1..Len(file.rows) :
                          /\ file.rows[i].cells = 3
                          /\ file.rows[i].Time.ok
                          /\ file.rows[i].Time.start >= t.tod}
             best == {i \in later : \A j \in later :
                          file.rows[i].Time.start <= file.rows[j].Time.start}
         IN  IF later = {} THEN None ELSE lstrip(file.rows[Min(best)].CourseName)

\* telegbot.get_next_class, when it returns: the first row, in file order, with
\* the smallest start after now, of any day.  The course is the first cell of
\* line.strip().split(","): white space before it is gone, white space inside
\* and after it is kept
get_next_class(file, t) ==
    IF file.st # "ok" \/ file.rows = <<>> THEN None
    ELSE LET later == {i \in 1..Len(file.rows) :
                          /\ file.rows[i].cells = 3
                          /\ file.rows[i].Time.ok
                          /\ file.rows[i].Time.start > t.tod}
             best == {i \in later : \A j \in later :
                          file.rows[i].Time.start <= file.rows[j].Time.start}
         IN  IF later = {} THEN None ELSE lstrip(file.rows[Min(best)].CourseName)

-----------------------------------------------------------------------------
(* Flag file names *)

\* str(n)
Str(n) == <<"0", "1", "2", "3", "4", "5", "6", "7", "8", "9">>[n + 1]

PauseUserFlag(username) == <<"pause_user_">> \o username \o <<".flag">>

PauseOncePrefix(username) == <<"pause_once_">> \o username \o <<"_">>

PauseOnceFlag(username, course_name) ==
    PauseOncePrefix(username) \o _safe(course_name) \o <<".flag">>

SuccessFlag(username, course_name, today) ==
    <<"success_">> \o username \o <<"_">> \o _safe(course_name)
        \o <<"_", today, ".flag">>

RetryFlag(username, course_name, today, n) ==
    <<"retry_">> \o username \o <<"_">> \o _safe(course_name)
        \o <<"_", today, "_attempt_", Str(n), ".flag">>

-----------------------------------------------------------------------------
(* Flags (spda.py) *)

\* mutant: the one-time pause flag is not removed
is_paused_not_consumed(pf, username, course_name) ==
    [ret |-> PauseUserFlag(username) \in pf \/ PauseOnceFlag(username, course_name) \in pf,
     flags |-> pf]

\* mutant: the one-time pause flag is looked at, and removed, first
is_paused_once_first(pf, username, course_name) ==
    IF PauseOnceFlag(username, course_name) \in pf
    THEN [ret |-> TRUE, flags |-> pf \ {PauseOnceFlag(username, course_name)}]
    ELSE [ret |-> PauseUserFlag(username) \in pf, flags |-> pf]

\* is_paused: what it returns and the FLAG_DIR it leaves
is_paused(pf, username, course_name) ==
    IF PauseUserFlag(username) \in pf
    THEN [ret |-> TRUE, flags |-> pf]
    ELSE IF PauseOnceFlag(username, course_name) \in pf
    THEN [ret |-> TRUE, flags |-> pf \ {PauseOnceFlag(username, course_name)}]
    ELSE [ret |-> FALSE, flags |-> pf]

\* mutant: the success flag is not looked at
has_attended_today_unchecked(af, username, course_name, t) == FALSE

has_attended_today(af, username, course_name, t) ==
    SuccessFlag(username, course_name, DateStr(t)) \in af

\* mutant: the retry flags are not looked at
get_current_attempt_first(af, username, course_name, t) == 1

\* mutant: the date stamp of the retry flags is not looked at
get_current_attempt_any_day(af, username, course_name, t) ==
    IF \E d \in 1..Len(Dates) : RetryFlag(username, course_name, Dates[d], 2) \in af THEN 3
    ELSE IF \E d \in 1..Len(Dates) : RetryFlag(username, course_name, Dates[d], 1) \in af THEN 2
    ELSE 1

get_current_attempt(af, username, course_name, t) ==
    IF RetryFlag(username, course_name, DateStr(t), 2) \in af THEN 3
    ELSE IF RetryFlag(username, course_name, DateStr(t), 1) \in af THEN 2
    ELSE 1

_clear_retry_flags(af, username, course_name, today) ==
    af \ {RetryFlag(username, course_name, today, i) : i \in {1, 2}}

\* mutant: nothing is removed
cleanup_old_flags_keeps_all(af, t) == af

cleanup_old_flags(af, t) ==
    {f \in af :
        ~ /\ (IsPrefix(<<"success_">>, f) \/ IsPrefix(<<"retry_">>, f))
          /\ ~Contains(f, <<"_", DateStr(t)>>)}

\* mutant: the success flag is not written
success_flags_unwritten(af, username, course_name, today) ==
    _clear_retry_flags(af, username, course_name, today)

\* mutant: the retry flags are left in place
success_flags_uncleared(af, username, course_name, today) ==
    af \cup {SuccessFlag(username, course_name, today)}

\* limited_login_and_attend, the success branch after notify_user: the success
\* flag is written, the retry flags are cleared
success_flags(af, username, course_name, today) ==
    _clear_retry_flags(af \cup {SuccessFlag(username, course_name, today)},
                       username, course_name, today)

\* mutant: the previous attempt's flag is kept
retry_flags_keep_previous(af, username, course_name, today, attempt) ==
    af \cup {RetryFlag(username, course_name, today, attempt)}

\* mutant: this attempt's flag is not written
retry_flags_not_written(af, username, course_name, today, attempt) ==
    IF attempt > 1
    THEN af \ {RetryFlag(username, course_name, today, attempt - 1)}
    ELSE af

\* limited_login_and_attend, the except branch: this attempt's flag is written,
\* the previous attempt's flag is removed
retry_flags(af, username, course_name, today, attempt) ==
    LET written == af \cup {RetryFlag(username, course_name, today, attempt)}
    IN  IF attempt > 1
        THEN written \ {RetryFlag(username, course_name, today, attempt - 1)}
        ELSE written

-----------------------------------------------------------------------------
(* Pause commands (telegbot.py, discordbot.py) *)

\* str.replace(' ', '_')
replace_space(s) == [i \in 1..Len(s) |-> IF s[i] = " " THEN "_" ELSE s[i]]

once_flags(pf, username) == {f \in pf : IsPrefix(PauseOncePrefix(username), f)}

\* mutant: pause does not look for a one-time pause
cmd_pause_flags_unchecked(pf, username) == pf \cup {PauseUserFlag(username)}

cmd_pause_flags(pf, username) ==
    IF PauseUserFlag(username) \in pf THEN pf
    ELSE IF once_flags(pf, username) # {} THEN pf
    ELSE pf \cup {PauseUserFlag(username)}

cmd_resume_flags(pf, username) ==
    (pf \ {PauseUserFlag(username)}) \ once_flags(pf, username)

\* mutant: pauseonce does not look for a one-time pause that is there
cmd_pauseonce_flags_again(pf, username, file, t) ==
    IF PauseUserFlag(username) \in pf THEN pf
    ELSE IF get_next_class_raises(file, t) THEN pf
    ELSE IF get_next_class(file, t) = None THEN pf
    ELSE pf \cup {PauseOncePrefix(username)
                    \o replace_space(get_next_class(file, t)) \o <<".flag">>}

cmd_pauseonce_flags(pf, username, file, t) ==
    IF PauseUserFlag(username) \in pf THEN pf
    ELSE IF once_flags(pf, username) # {} THEN pf
    ELSE IF get_next_class_raises(file, t) THEN pf
    ELSE IF get_next_class(file, t) = None THEN pf
    ELSE pf \cup {PauseOncePrefix(username)
                    \o replace_space(get_next_class(file, t)) \o <<".flag">>}

-----------------------------------------------------------------------------
(* run_main: the evaluation loop *)

\* load_users: the accounts with every field set, in index order
load_users(e) == SelectSeq(e, LAMBDA a : a.username # <<>>)

Key(username, course_name, t) == <<username, _safe(course_name), DateStr(t)>>

Fails(key) == IF key \in DOMAIN failures THEN failures[key] ELSE 0

\* the account the loop is at, its schedule file and its current class
Cur == Len(outcome) + 1
CurUser == users[Cur]
CurFile == files[CurUser.schedule_file]
CurClass == get_current_class(CurFile.rows, now)

Evaluating == pc = "eval" /\ Cur <= Len(users)

Continue(what) ==
    /\ outcome' = Append(outcome, what)
    /\ UNCHANGED <<pc, users, sem, waiters>>

\* mutant: the text is not handed to notify_user
Notify_dropped(i, text) == sent' = sent

Notify(i, text) == sent' = [sent EXCEPT ![i] = Append(@, text)]

run_main_start ==
    /\ pc \in {"idle", "done", "crashed"}
    /\ attFlags' = cleanup_old_flags(attFlags, now)
    /\ users' = load_users(env)
    /\ pc' = IF users' = <<>> THEN "done" ELSE "eval"
    /\ outcome' = <<>>
    /\ stagger' = 0
    /\ tasks' = <<>>
    /\ sem' = SemaphoreCap
    /\ waiters' = <<>>
    /\ sent' = [i \in 1..Len(users') |-> <<>>]
    /\ UNCHANGED <<now, env, files, pauseFlags, histVars, trace>>

\* "Schedule file not found"
EvalNoFile ==
    /\ Evaluating
    /\ CurFile.st = "absent"
    /\ Continue("no_file")
    /\ UNCHANGED <<now, env, files, pauseFlags, attFlags, stagger, tasks, sent,
                   histVars, trace>>

\* load_schedule raises (a file open() or csv cannot read): nothing in run_main
\* catches it, the coroutines collected so far are never awaited
EvalLoadError ==
    /\ Evaluating
    /\ CurFile.st = "unreadable"
    /\ pc' = "crashed"
    /\ UNCHANGED <<now, env, files, pauseFlags, attFlags, users, outcome, stagger,
                   tasks, sem, waiters, sent, histVars, trace>>

EvalNoClass ==
    /\ Evaluating
    /\ CurFile.st = "ok"
    /\ CurClass = None
    /\ Continue("no_class")
    /\ UNCHANGED <<now, env, files, pauseFlags, attFlags, stagger, tasks, sent,
                   histVars, trace>>

EvalAttended ==
    /\ Evaluating
    /\ CurFile.st = "ok"
    /\ CurClass # None
    /\ has_attended_today(attFlags, CurUser.username, CurClass, now)
    /\ Continue("attended")
    /\ UNCHANGED <<now, env, files, pauseFlags, attFlags, stagger, tasks, sent,
                   histVars, trace>>

EvalPaused ==
    /\ Evaluating
    /\ CurFile.st = "ok"
    /\ CurClass # None
    /\ ~has_attended_today(attFlags, CurUser.username, CurClass, now)
    /\ is_paused(pauseFlags, CurUser.username, CurClass).ret
    /\ pauseFlags' = is_paused(pauseFlags, CurUser.username, CurClass).flags
    /\ Notify(Cur, "paused")
    /\ Continue("paused")
    /\ UNCHANGED <<now, env, files, attFlags, stagger, tasks, histVars, trace>>

EvalExhausted ==
    /\ Evaluating
    /\ CurFile.st = "ok"
    /\ CurClass # None
    /\ ~has_attended_today(attFlags, CurUser.username, CurClass, now)
    /\ ~is_paused(pauseFlags, CurUser.username, CurClass).ret
    /\ get_current_attempt(attFlags, CurUser.username, CurClass, now) > MaxAttempts
    /\ Continue("exhausted")
    /\ UNCHANGED <<now, env, files, pauseFlags, attFlags, stagger, tasks, sent,
                   histVars, trace>>

EvalDispatch ==
    /\ Evaluating
    /\ CurFile.st = "ok"
    /\ CurClass # None
    /\ ~has_attended_today(attFlags, CurUser.username, CurClass, now)
    /\ ~is_paused(pauseFlags, CurUser.username, CurClass).ret
    /\ get_current_attempt(attFlags, CurUser.username, CurClass, now) <= MaxAttempts
    /\ tasks' = Append(tasks,
                  [u |-> Cur, cls |-> CurClass, wait |-> stagger,
                   att |-> get_current_attempt(attFlags, CurUser.username, CurClass, now),
                   st |-> "sleep", out |-> "none", exc |-> "none"])
    /\ stagger' = stagger + StaggerStep
    /\ Continue("dispatched")
    /\ UNCHANGED <<now, env, files, pauseFlags, attFlags, sent, histVars, trace>>

\* "if tasks: await asyncio.gather(*tasks)"
Gather ==
    /\ pc = "eval"
    /\ Cur > Len(users)
    /\ pc' = IF tasks = <<>> THEN "done" ELSE "gather"
    /\ UNCHANGED <<now, env, files, pauseFlags, attFlags, users, outcome, stagger,
                   tasks, sem, waiters, sent, histVars, trace>>

-----------------------------------------------------------------------------
(* limited_login_and_attend: one task of the pass *)

TaskUser(k) == users[tasks[k].u]
TaskKey(k) == Key(TaskUser(k).username, tasks[k].cls, now)

\* mutant: the semaphore admits everyone
CanAcquire_always(s) == TRUE

\* asyncio.Semaphore.acquire does not block while a slot is free
CanAcquire(s) == s > 0

\* inside "async with semaphore": "if attempt > 2: return", else the actor is called
Enter(t) ==
    IF t.att > MaxAttempts
    THEN [t EXCEPT !.st = "hold", !.out = "skip"]
    ELSE [t EXCEPT !.st = "run"]

\* mutant: the task goes on after its sleep without taking a slot
Wake_holding(k) ==
    /\ pc = "gather"
    /\ tasks[k].st = "sleep"
    /\ \A j \in 1..(k - 1) : tasks[j].st # "sleep"
    /\ tasks' = [tasks EXCEPT ![k] = Enter(@)]
    /\ UNCHANGED <<now, env, files, pauseFlags, attFlags, pc, users, outcome,
                   stagger, sem, waiters, sent, histVars, trace>>

\* asyncio.sleep(wait) is over (the timers fire in the order of their delays) and
\* the task reaches "async with semaphore"
Wake(k) ==
    /\ pc = "gather"
    /\ tasks[k].st = "sleep"
    /\ \A j \in 1..(k - 1) : tasks[j].st # "sleep"
    /\ IF CanAcquire(sem)
       THEN /\ sem' = sem - 1
            /\ tasks' = [tasks EXCEPT ![k] = Enter(@)]
            /\ UNCHANGED waiters
       ELSE /\ tasks' = [tasks EXCEPT ![k].st = "wait"]
            /\ waiters' = Append(waiters, k)
            /\ UNCHANGED sem
    /\ UNCHANGED <<now, env, files, pauseFlags, attFlags, pc, users, outcome,
                   stagger, sent, histVars, trace>>

\* login_and_attend returns True; notify_user is awaited before the flag is written
ActorReturnsTrue(k) ==
    /\ pc = "gather"
    /\ tasks[k].st = "run"
    /\ tasks' = [tasks EXCEPT ![k].st = "hold", ![k].out = "success"]
    /\ Notify(tasks[k].u, "success")
    /\ succeeded' = succeeded \cup {TaskKey(k)}
    /\ UNCHANGED <<now, env, files, pauseFlags, attFlags, pc, users, outcome,
                   stagger, sem, waiters, failures, rejected, trace>>

\* login_and_attend returns False: the site rejected the login
ActorReturnsFalse(k) ==
    /\ pc = "gather"
    /\ tasks[k].st = "run"
    /\ tasks' = [tasks EXCEPT ![k].st = "hold", ![k].out = "login"]
    /\ Notify(tasks[k].u, "login_failed")
    /\ rejected' = rejected \cup {TaskUser(k).username}
    /\ UNCHANGED <<now, env, files, pauseFlags, attFlags, pc, users, outcome,
                   stagger, sem, waiters, succeeded, failures, trace>>

\* mutant: only the first failure of the day is reported
failure_notification_first_only(attempt) ==
    IF attempt = 1 THEN <<"attempt1">> ELSE <<>>

\* mutant: the policy of three attempts, the second one silent
failure_notification_of_three(attempt) ==
    IF attempt = 1 THEN <<"attempt1">>
    ELSE IF attempt = 3 THEN <<"final">>
    ELSE <<>>

\* the except branch, "if attempt == 1 ... elif attempt == 2 ...": the texts it
\* hands to notify_user
failure_notification(attempt) ==
    IF attempt = 1 THEN <<"attempt1">>
    ELSE IF attempt = 2 THEN <<"final">>
    ELSE <<>>

\* what the call of login_and_attend can raise: "retriable" is an Exception of
\* its own raise statements (course or attendance link not found, could not
\* submit, page timed out), "other" is any Exception from outside its try (the
\* browser launch, the close calls of its finally)
ActorExceptions == {"retriable", "other"}

\* mutant: only the actor's own errors are caught
except_catches_own(e) == e = "retriable"

\* "except Exception as e" of limited_login_and_attend
except_catches(e) == e \in ActorExceptions

\* login_and_attend raises e: the retry flags are updated, then attempt 1 and
\* attempt 2 notify; an exception the except clause does not catch leaves the
\* task and gather, and ends run_main
ActorRaisesWith(k, e) ==
    /\ pc = "gather"
    /\ tasks[k].st = "run"
    /\ IF except_catches(e)
       THEN /\ attFlags' = retry_flags(attFlags, TaskUser(k).username, tasks[k].cls,
                                       DateStr(now), tasks[k].att)
            /\ tasks' = [tasks EXCEPT ![k].st = "hold", ![k].out = "retry",
                                      ![k].exc = e]
            /\ sent' = [sent EXCEPT ![tasks[k].u] =
                                       @ \o failure_notification(tasks[k].att)]
            /\ failures' = [x \in DOMAIN failures \cup {TaskKey(k)} |->
                              IF x = TaskKey(k) THEN Fails(x) + 1 ELSE failures[x]]
            /\ UNCHANGED pc
       ELSE /\ tasks' = [tasks EXCEPT ![k].st = "raised", ![k].exc = e]
            /\ pc' = "crashed"
            /\ UNCHANGED <<attFlags, sent, failures>>
    /\ UNCHANGED <<now, env, files, pauseFlags, users, outcome, stagger, sem,
                   waiters, succeeded, rejected, trace>>

ActorRaises(k) == \E e \in ActorExceptions : ActorRaisesWith(k, e)

\* notify_user returns; after a success the success flag is written and the retry
\* flags are cleared; the task leaves "async with semaphore", which hands the slot
\* to the first waiter
Finish(k) ==
    /\ pc = "gather"
    /\ tasks[k].st = "hold"
    /\ attFlags' = IF tasks[k].out = "success"
                   THEN success_flags(attFlags, TaskUser(k).username, tasks[k].cls,
                                      DateStr(now))
                   ELSE attFlags
    /\ IF waiters # <<>>
       THEN /\ tasks' = [tasks EXCEPT ![k].st = "done",
                                      ![Head(waiters)] = Enter(@)]
            /\ waiters' = Tail(waiters)
            /\ UNCHANGED sem
       ELSE /\ tasks' = [tasks EXCEPT ![k].st = "done"]
            /\ sem' = sem + 1
            /\ UNCHANGED waiters
    /\ UNCHANGED <<now, env, files, pauseFlags, pc, users, outcome, stagger, sent,
                   histVars, trace>>

\* asyncio.gather returns
PassEnd ==
    /\ pc = "gather"
    /\ \A k \in 1..Len(tasks) : tasks[k].st = "done"
    /\ pc' = "done"
    /\ UNCHANGED <<now, env, files, pauseFlags, attFlags, users, outcome, stagger,
                   tasks, sem, waiters, sent, histVars, trace>>

-----------------------------------------------------------------------------
(* The environment: the clock and the bot commands *)

PassRunning == pc \in {"eval", "gather"}

TickIndex == CHOOSE i \in 1..Len(ClockTicks) : ClockTicks[i] = now.tod

Tick ==
    /\ TickIndex < Len(ClockTicks)
    /\ now' = [now EXCEPT !.tod = ClockTicks[TickIndex + 1]]
    /\ UNCHANGED <<env, files, pauseFlags, attFlags, passVars, histVars, trace>>

\* midnight; a pass lasts minutes and none is running then.  The history of
\* failures and successes is the one of today
DayRoll ==
    /\ ~PassRunning
    /\ TickIndex = Len(ClockTicks)
    /\ now.day < NumDays
    /\ now' = [day |-> now.day + 1, tod |-> ClockTicks[1]]
    /\ succeeded' = {}
    /\ failures' = <<>>
    /\ UNCHANGED <<env, files, pauseFlags, attFlags, passVars, rejected, trace>>

cmd_pause(a) ==
    /\ pauseFlags' = cmd_pause_flags(pauseFlags, env[a].username)
    /\ UNCHANGED <<now, env, files, attFlags, passVars, histVars, trace>>

cmd_resume(a) ==
    /\ pauseFlags' = cmd_resume_flags(pauseFlags, env[a].username)
    /\ UNCHANGED <<now, env, files, attFlags, passVars, histVars, trace>>

cmd_pauseonce(a) ==
    /\ pauseFlags' = cmd_pauseonce_flags(pauseFlags, env[a].username,
                                         files[env[a].schedule_file], now)
    /\ UNCHANGED <<now, env, files, attFlags, passVars, histVars, trace>>

-----------------------------------------------------------------------------
(* The system *)

Al == <<"al">>
Bo == <<"bo">>
Math == <<"Math">>
FisLab == <<"Fis", " ", "Lab">>

Absent == [st |-> "absent", rows |-> <<>>]
Unreadable == [st |-> "unreadable", rows |-> <<>>]
File(rows) == [st |-> "ok", rows |-> rows]

AlSchedule == <<Row(Math, "Senin", 540, 630), Row(Math, "Selasa", 540, 630)>>
BoSchedule == <<Row(FisLab, "Senin", 540, 630)>>

Init ==
    /\ now = [day |-> 1, tod |-> ClockTicks[1]]
    /\ env = <<[username |-> Al, schedule_file |-> 1],
               [username |-> Bo, schedule_file |-> 2]>>
    /\ files \in {<<File(AlSchedule), f>> : f \in {File(BoSchedule), Unreadable, Absent}}
    /\ pauseFlags = {}
    /\ attFlags = {}
    /\ pc = "idle"
    /\ users = <<>>
    /\ outcome = <<>>
    /\ stagger = 0
    /\ tasks = <<>>
    /\ sem = SemaphoreCap
    /\ waiters = <<>>
    /\ sent = <<>>
    /\ succeeded = {}
    /\ failures = <<>>
    /\ rejected = {}
    /\ trace = <<>>

PassStep ==
    \/ run_main_start
    \/ EvalNoFile
    \/ EvalLoadError
    \/ EvalNoClass
    \/ EvalAttended
    \/ EvalPaused
    \/ EvalExhausted
    \/ EvalDispatch
    \/ Gather
    \/ \E k \in 1..Len(tasks) : Wake(k)
    \/ \E k \in 1..Len(tasks) : ActorReturnsTrue(k)
    \/ \E k \in 1..Len(tasks) : ActorReturnsFalse(k)
    \/ \E k \in 1..Len(tasks) : ActorRaises(k)
    \/ \E k \in 1..Len(tasks) : Finish(k)
    \/ PassEnd

Next ==
    \/ PassStep
    \/ Tick
    \/ DayRoll
    \/ \E a \in 1..Len(env) : cmd_pause(a)
    \/ \E a \in 1..Len(env) : cmd_resume(a)
    \/ \E a \in 1..Len(env) : cmd_pauseonce(a)

Spec == Init /\ [][Next]_vars

-----------------------------------------------------------------------------
(* One pass over many accounts: the state at the top of run_main's loop, every
   account inside the window of its class, no flag set *)

GateUser(i) == [username |-> <<"u", Str(i)>>, schedule_file |-> i]

InitGate ==
    /\ now = [day |-> 1, tod |-> 540]
    /\ env = [i \in 1..GateUsers |-> GateUser(i)]
    /\ files = [i \in 1..GateUsers |-> File(AlSchedule)]
    /\ pauseFlags = {}
    /\ attFlags = {}
    /\ pc = "eval"
    /\ users = load_users(env)
    /\ outcome = <<>>
    /\ stagger = 0
    /\ tasks = <<>>
    /\ sem = SemaphoreCap
    /\ waiters = <<>>
    /\ sent = [i \in 1..GateUsers |-> <<>>]
    /\ succeeded = {}
    /\ failures = <<>>
    /\ rejected = {}
    /\ trace = <<>>

NextGate ==
    \/ EvalDispatch
    \/ Gather
    \/ \E k \in 1..Len(tasks) : Wake(k)
    \/ \E k \in 1..Len(tasks) : ActorReturnsTrue(k)
    \/ \E k \in 1..Len(tasks) : ActorReturnsFalse(k)
    \/ \E k \in 1..Len(tasks) : ActorRaises(k)
    \/ \E k \in 1..Len(tasks) : Finish(k)
    \/ PassEnd

SpecGate == InitGate /\ [][NextGate]_vars

-----------------------------------------------------------------------------
(* The pause manager alone: is_paused and the pauseonce command applied, in any
   order, to any FLAG_DIR holding pause flags of the two accounts *)

PauseSchedule == <<Row(Math, "Senin", 540, 630), Row(FisLab, "Senin", 600, 690)>>

PauseCourses == {Math, FisLab}

PauseUniverse ==
    {PauseUserFlag(u) : u \in {Al, Bo}}
        \cup {PauseOnceFlag(u, c) : u \in {Al, Bo}, c \in PauseCourses}

\* a call of is_paused(username, course_name), as run_main makes it
CallIsPaused(a, c) ==
    /\ Len(trace) < MaxCalls
    /\ pauseFlags' = is_paused(pauseFlags, env[a].username, c).flags
    /\ trace' = Append(trace,
           [op |-> "is_paused", username |-> env[a].username, course |-> c,
            ret |-> is_paused(pauseFlags, env[a].username, c).ret,
            before |-> pauseFlags, after |-> pauseFlags'])
    /\ UNCHANGED <<now, env, files, attFlags, passVars, histVars>>

\* the pauseonce command of the bot
CallPauseOnce(a) ==
    /\ Len(trace) < MaxCalls
    /\ pauseFlags' = cmd_pauseonce_flags(pauseFlags, env[a].username,
                                         files[env[a].schedule_file], now)
    /\ trace' = Append(trace,
           [op |-> "pauseonce", username |-> env[a].username,
            course |-> get_next_class(files[env[a].schedule_file], now),
            ret |-> pauseFlags' # pauseFlags,
            before |-> pauseFlags, after |-> pauseFlags'])
    /\ UNCHANGED <<now, env, files, attFlags, passVars, histVars>>

InitPause ==
    /\ now = [day |-> 1, tod |-> ClockTicks[1]]
    /\ env = <<[username |-> Al, schedule_file |-> 1],
               [username |-> Bo, schedule_file |-> 2]>>
    /\ files = <<File(PauseSchedule), File(PauseSchedule)>>
    /\ pauseFlags \in SUBSET PauseUniverse
    /\ attFlags = {}
    /\ pc = "idle"
    /\ users = <<>>
    /\ outcome = <<>>
    /\ stagger = 0
    /\ tasks = <<>>
    /\ sem = SemaphoreCap
    /\ waiters = <<>>
    /\ sent = <<>>
    /\ succeeded = {}
    /\ failures = <<>>
    /\ rejected = {}
    /\ trace = <<>>

NextPause ==
    \/ \E a \in 1..Len(env), c \in PauseCourses : CallIsPaused(a, c)
    \/ \E a \in 1..Len(env) : CallPauseOnce(a)
    \/ Tick

SpecPause == InitPause /\ [][NextPause]_vars

-----------------------------------------------------------------------------
(* What the claims speak of *)

\* this step is the loop's turn for account Cur of the pass
EvalStep == Evaluating /\ pc' = "eval" /\ Len(outcome') = Len(outcome) + 1

\* the account under evaluation has a readable timetable and a current class
HasClass == Evaluating /\ CurFile.st = "ok" /\ CurClass # None

CurKey == Key(CurUser.username, CurClass, now)

\* this step starts login_and_attend for task k
StartsActor(k) ==
    /\ Len(tasks') = Len(tasks)
    /\ tasks[k].st # "run"
    /\ tasks'[k].st = "run"

RetryFlagsOf(af, key) ==
    {f \in af : \E n \in 1..3 :
        f = <<"retry_">> \o key[1] \o <<"_">> \o key[2]
                \o <<"_", key[3], "_attempt_", Str(n), ".flag">>}

InFlight == {k \in 1..Len(tasks) : tasks[k].st = "run"}

-----------------------------------------------------------------------------
(* Claims *)

\* C1: an account whose current class has a success flag dated today is skipped
\* by the loop of run_main: no task is appended for it, whatever pause flags and
\* retry flags exist.
C1_AttendedIsSkipped ==
    [][(HasClass /\ EvalStep
            /\ SuccessFlag(CurUser.username, CurClass, DateStr(now)) \in attFlags)
        => (tasks' = tasks /\ outcome'[Cur] = "attended")]_vars

C1_Witness ==
    /\ pc = "eval"
    /\ \E i \in 1..Len(outcome) :
          /\ outcome[i] = "attended"
          /\ PauseUserFlag(users[i].username) \in pauseFlags
          /\ \E c \in {Math, FisLab} :
                SuccessFlag(users[i].username, c, DateStr(now)) \in attFlags

\* C2: once the actor has returned True for (account, course, day), no later step
\* of that day starts the actor for the same (account, course, day).
C2_SubmittedAtMostOnce ==
    [][\A k \in 1..Len(tasks) : StartsActor(k) => TaskKey(k) \notin succeeded]_vars

C2_Witness ==
    \E i \in 1..Len(outcome) :
        /\ outcome[i] = "attended"
        /\ \E key \in succeeded : key[1] = users[i].username

C4_Original ==
    [][/\ \A key \in DOMAIN failures' : failures'[key] <= 3
       /\ (HasClass /\ EvalStep
             /\ get_current_attempt(attFlags, CurUser.username, CurClass, now) > MaxAttempts)
            => (tasks' = tasks /\ sent' = sent)]_vars

\* C4, amended: at most 3 retriable failures per (account, course, day); a pass
\* that finds the budget exhausted does not dispatch, and it notifies only when
\* it finds the account paused (the paused-skip notification).
C4_BudgetBounded ==
    [][/\ \A key \in DOMAIN failures' : failures'[key] <= 3
       /\ (HasClass /\ EvalStep
             /\ get_current_attempt(attFlags, CurUser.username, CurClass, now) > MaxAttempts)
            => /\ tasks' = tasks
               /\ \/ sent' = sent
                  \/ /\ is_paused(pauseFlags, CurUser.username, CurClass).ret
                     /\ sent' = [sent EXCEPT ![Cur] = Append(@, "paused")]]_vars

C4_Witness ==
    \E i \in 1..Len(outcome) :
        /\ outcome[i] = "exhausted"
        /\ sent[i] = <<>>
        /\ \E key \in DOMAIN failures :
              key[1] = users[i].username /\ failures[key] = MaxAttempts

\* C5: within one day the attempt number of an (account, course) that has not
\* succeeded never decreases, and after midnight it is 1.
C5_AttemptMonotonic ==
    [][\A a \in 1..Len(env) : \A c \in {Math, FisLab} :
          LET u == env[a].username
          IN  /\ (now'.day = now.day /\ Key(u, c, now) \notin succeeded')
                    => get_current_attempt(attFlags', u, c, now')
                          >= get_current_attempt(attFlags, u, c, now)
              /\ now'.day # now.day
                    => get_current_attempt(attFlags', u, c, now') = 1]_vars

C5_Witness ==
    /\ now.day = 2
    /\ RetryFlag(Al, Math, Dates[1], 2) \in attFlags
    /\ get_current_attempt(attFlags, Al, Math, now) = 1
    /\ get_current_attempt(attFlags, Al, Math, [now EXCEPT !.day = 1]) = 3

\* C6 as claimed: after the site rejected an account's login, no later step starts
\* the actor for that account (its credentials never change here).
C6_Original ==
    [][\A k \in 1..Len(tasks) :
          StartsActor(k) => TaskUser(k).username \notin rejected]_vars

\* C7: with no indefinite pause, the is_paused call that finds the one-time pause
\* flag of a course returns true and removes the flag, and every later is_paused
\* call for the same account and course returns false, until pauseonce sets a
\* one-time pause for the account again.
C7_OncePauseConsumed ==
    \A i \in 1..Len(trace) :
        LET e == trace[i]
        IN  (/\ e.op = "is_paused"
             /\ PauseUserFlag(e.username) \notin e.before
             /\ PauseOnceFlag(e.username, e.course) \in e.before)
            => /\ e.ret
               /\ PauseOnceFlag(e.username, e.course) \notin e.after
               /\ \A j \in (i + 1)..Len(trace) :
                     (/\ trace[j].op = "is_paused"
                      /\ trace[j].username = e.username
                      /\ _safe(trace[j].course) = _safe(e.course)
                      /\ \A m \in (i + 1)..(j - 1) :
                            ~(trace[m].op = "pauseonce" /\ trace[m].username = e.username
                                /\ trace[m].ret))
                     => ~trace[j].ret

C7_Witness ==
    /\ Len(trace) = 3
    /\ trace[1].op = "is_paused" /\ trace[1].ret
    /\ PauseUserFlag(trace[1].username) \notin trace[1].before
    /\ trace[2].op = "is_paused" /\ ~trace[2].ret
    /\ trace[2].username = trace[1].username /\ trace[2].course = trace[1].course
    /\ trace[3].op = "pauseonce" /\ trace[3].ret
    /\ trace[3].username = trace[1].username

\* C8: while the indefinite pause flag of an account is present, is_paused returns
\* true for every course and leaves FLAG_DIR, the one-time pause flags of the
\* account included, as it was.
C8_IndefiniteHasNoEffect ==
    \A i \in 1..Len(trace) :
        LET e == trace[i]
        IN  (e.op = "is_paused" /\ PauseUserFlag(e.username) \in e.before)
            => (e.ret /\ e.after = e.before)

C8_Witness ==
    \E i \in 1..Len(trace) :
        LET e == trace[i]
        IN  /\ e.op = "is_paused"
            /\ PauseUserFlag(e.username) \in e.before
            /\ PauseOnceFlag(e.username, e.course) \in e.before
            /\ e.ret
            /\ PauseOnceFlag(e.username, e.course) \in e.after

\* C9: at most 4 calls of login_and_attend are in flight; an account dispatched
\* while 4 are in flight waits for a slot.
C9_GateBound ==
    /\ Cardinality(InFlight) <= 4
    /\ \A k \in 1..Len(tasks) :
          tasks[k].st = "wait" =>
              /\ sem = 0
              /\ Cardinality({j \in 1..Len(tasks) : tasks[j].st \in {"run", "hold"}}) = 4

C9_Witness ==
    /\ Cardinality(InFlight) = 4
    /\ waiters # <<>>

\* C10 as claimed: when load_schedule fails for one account, the accounts after it
\* are evaluated all the same and every account the pass dispatched has its
\* attempt run to the end.
C10_Original ==
    pc = "crashed" =>
        /\ Cur = Len(users)
        /\ \A k \in 1..Len(tasks) : tasks[k].st = "done"

\* the tasks of the pass dispatched for account i that left login_and_attend
Ended(i) == {k \in 1..Len(tasks) : tasks[k].u = i /\ tasks[k].out # "none"}

\* C11: in a pass, an account whose outcome is a success, a rejected login, a
\* final retriable failure or a paused skip has been sent exactly one outcome
\* notification, the one of that outcome; a retriable failure that is neither the
\* first nor the final attempt has been sent none.
C11_OneNotificationPerOutcome ==
    \A i \in 1..Len(outcome) :
        /\ outcome[i] = "paused" => sent[i] = <<"paused">>
        /\ \A k \in Ended(i) :
              /\ tasks[k].out = "success" => sent[i] = <<"success">>
              /\ tasks[k].out = "login" => sent[i] = <<"login_failed">>
              /\ (tasks[k].out = "retry" /\ tasks[k].att = MaxAttempts)
                    => sent[i] = <<"final">>
              /\ (tasks[k].out = "retry" /\ tasks[k].att \notin {1, MaxAttempts})
                    => sent[i] = <<>>

C11_Witness ==
    /\ pc = "done"
    /\ \E i \in 1..Len(outcome) : outcome[i] = "paused" /\ Len(sent[i]) = 1
    /\ \E k \in 1..Len(tasks) :
          /\ tasks[k].out = "retry"
          /\ tasks[k].att = MaxAttempts
          /\ Len(sent[tasks[k].u]) = 1

-----------------------------------------------------------------------------
(* The resolvers alone: get_current_class of spda.py and get_next_class of the
   bots applied to any timetable of at most MaxRows rows at any of the instants
   of ResolverClock *)

MaxRows == 2

Empty == [st |-> "empty", rows |-> <<>>]

\* 08:59, 09:00, 09:05, 09:15, 09:16 and 09:21 of a Monday, Tuesday, Wednesday
ResolverClock ==
    {[day |-> d, tod |-> m] : d \in 1..3, m \in {539, 540, 545, 555, 556, 561}}

ResolverRows ==
    {Row(c, d, s, s + 90) : c \in {Math, FisLab}, d \in {"Senin", "Selasa"},
                            s \in {540, 545}}
        \cup {BadRow(Math, "Senin", sep) : sep \in BOOLEAN}
        \cup {ShortRow(Math, "Senin"), LongRow(Math, "Senin", 545, 635)}
        \cup {Row(<<"Fis", " ", " ", "Lab">>, "Senin", 545, 635)}

ResolverFiles ==
    {Absent, Empty}
        \cup {File(rows) : rows \in UNION {[1..n -> ResolverRows] : n \in 0..MaxRows}}

\* run_main: load_schedule, then get_current_class, for a file that exists
CallGetCurrentClass ==
    /\ files[1].st \in {"ok", "empty"}
    /\ trace' = <<[op |-> "get_current_class", raised |-> FALSE,
                   ret |-> get_current_class(files[1].rows, now)]>>
    /\ UNCHANGED <<now, env, files, pauseFlags, attFlags, passVars, histVars>>

\* cmd_pauseonce: get_next_class(schedule_path)
CallGetNextClass ==
    /\ trace' = <<[op |-> "get_next_class",
                   raised |-> get_next_class_raises(files[1], now),
                   ret |-> IF get_next_class_raises(files[1], now) THEN None
                           ELSE get_next_class(files[1], now)]>>
    /\ UNCHANGED <<now, env, files, pauseFlags, attFlags, passVars, histVars>>

\* no pass of run_main is under way and none has left a trace
NoPass ==
    /\ pc = "idle"
    /\ users = <<>>
    /\ outcome = <<>>
    /\ stagger = 0
    /\ tasks = <<>>
    /\ sem = SemaphoreCap
    /\ waiters = <<>>
    /\ sent = <<>>
    /\ succeeded = {}
    /\ failures = <<>>
    /\ rejected = {}

InitResolver ==
    /\ now \in ResolverClock
    /\ env = <<[username |-> Al, schedule_file |-> 1]>>
    /\ files \in {<<f>> : f \in ResolverFiles}
    /\ pauseFlags = {}
    /\ attFlags = {}
    /\ NoPass
    /\ trace = <<>>

\* discordbot.cmd_pauseonce: get_next_class(schedule_path)
CallGetNextClassDiscord ==
    /\ trace' = <<[op |-> "discord_get_next_class",
                   raised |-> discord_get_next_class_raises(files[1], now),
                   ret |-> IF discord_get_next_class_raises(files[1], now) THEN None
                           ELSE get_next_class(files[1], now)]>>
    /\ UNCHANGED <<now, env, files, pauseFlags, attFlags, passVars, histVars>>

NextResolver ==
    \/ CallGetCurrentClass
    \/ CallGetNextClass
    \/ CallGetNextClassDiscord

SpecResolver == InitResolver /\ [][NextResolver]_vars

\* the positions of trace that record a call of op
Called(op) == {i \in 1..Len(trace) : trace[i].op = op}

\* C13: get_current_class returns a course exactly when some row of today's weekday
\* has start <= now <= start + 15 minutes, both ends included, and then the course
\* of such a row; for the single row Math, Monday, 09:00 - 10:30 it returns Math on
\* Monday at 09:05 and nothing at 09:16; it returns nothing when every row is of
\* another weekday and when the timetable is empty.
C13_WindowInclusive ==
    \A i \in Called("get_current_class") :
        LET rows == files[1].rows
            today == day_map[WeekdayName(now)]
            fits == {r \in 1..Len(rows) :
                        /\ rows[r].Day = today
                        /\ rows[r].Time.ok
                        /\ rows[r].Time.start <= now.tod
                        /\ now.tod <= rows[r].Time.start + 15}
        IN  /\ trace[i].ret # None <=> fits # {}
            /\ trace[i].ret # None => \E r \in fits : trace[i].ret = rows[r].CourseName
            /\ rows = <<Row(Math, "Senin", 540, 630)>> =>
                  /\ now = [day |-> 1, tod |-> 545] => trace[i].ret = Math
                  /\ now = [day |-> 1, tod |-> 556] => trace[i].ret = None
            /\ (\A r \in 1..Len(rows) : rows[r].Day # today) => trace[i].ret = None
            /\ rows = <<>> => trace[i].ret = None

\* the row Math, Monday, 09:00 was resolved at 09:15, the last minute of its window
C13_Witness ==
    /\ Called("get_current_class") # {}
    /\ files[1].rows = <<Row(Math, "Senin", 540, 630)>>
    /\ now = [day |-> 1, tod |-> 555]
    /\ trace[1].ret = Math

-----------------------------------------------------------------------------
(* The garbage collector alone: cleanup_old_flags applied to any content of
   ATTENDANCE_FLAG_DIR made of flags the program writes, and any FLAG_DIR *)

\* a course whose name ends in a date ("Kuis 2024-05-07")
Kuis == <<"Kuis", " ", Dates[2]>>

GCUniverse ==
    {SuccessFlag(Al, c, Dates[d]) : c \in {Math, Kuis}, d \in 1..NumDays}
        \cup {RetryFlag(Al, c, Dates[d], 1) : c \in {Math, Kuis}, d \in 1..NumDays}
        \cup {<<"notes.txt">>}

\* run_main: cleanup_old_flags()
CallCleanup ==
    /\ attFlags' = cleanup_old_flags(attFlags, now)
    /\ UNCHANGED <<now, env, files, pauseFlags, passVars, histVars>>
    /\ trace' = <<[op |-> "cleanup_old_flags", before |-> attFlags, after |-> attFlags',
                   pause_before |-> pauseFlags, pause_after |-> pauseFlags']>>

InitGC ==
    /\ now \in {[day |-> d, tod |-> ClockTicks[1]] : d \in 1..NumDays}
    /\ env = <<[username |-> Al, schedule_file |-> 1]>>
    /\ files = <<File(<<Row(Math, "Senin", 540, 630), Row(Kuis, "Senin", 540, 630)>>)>>
    /\ pauseFlags \in SUBSET {PauseUserFlag(Al), PauseOnceFlag(Al, Math)}
    /\ attFlags \in SUBSET GCUniverse
    /\ NoPass
    /\ trace = <<>>

NextGC == CallCleanup

SpecGC == InitGC /\ [][NextGC]_vars

IsAttendanceFlag(f) == IsPrefix(<<"success_">>, f) \/ IsPrefix(<<"retry_">>, f)

\* the date a success flag or a retry flag was written on: the part of its name
\* before ".flag", respectively before "_attempt_<n>.flag"
DateStamp(f) ==
    IF IsPrefix(<<"success_">>, f) THEN f[Len(f) - 1] ELSE f[Len(f) - 3]

\* C14 as claimed: cleanup_old_flags removes every success flag and every retry
\* flag whose date stamp is not today, keeps every flag dated today, and leaves
\* FLAG_DIR, where the pause flags are, as it was.
C14_Original ==
    \A i \in Called("cleanup_old_flags") :
        /\ \A f \in trace[i].before :
              f \in trace[i].after
                  <=> ~(IsAttendanceFlag(f) /\ DateStamp(f) # DateStr(now))
        /\ trace[i].after \subseteq trace[i].before
        /\ trace[i].pause_after = trace[i].pause_before

-----------------------------------------------------------------------------
(* The drift corrector (spda.py) *)

\* str.lower() of the atoms that have upper case letters
LowerAtom(a) ==
    CASE a = "Math" -> "math"
      [] a = "Fis" -> "fis"
      [] a = "Lab" -> "lab"
      [] a = "Kuis" -> "kuis"
      [] a = "II" -> "ii"
      [] OTHER -> a

lower(s) == [i \in 1..Len(s) |-> LowerAtom(s[i])]

Max(S) == CHOOSE x \in S : \A y \in S : x >= y

\* the rows update_schedule_time takes for the course
Matching(rows, course_name) ==
    {i \in 1..Len(rows) : IsPrefix(lower(course_name), lower(rows[i].CourseName))}

\* mutant: a matching row is rewritten whether or not its time differs
update_schedule_time_always(rows, course_name, new_time) ==
    [rows |-> [i \in 1..Len(rows) |->
                  IF i \in Matching(rows, course_name)
                  THEN [rows[i] EXCEPT !.Time = new_time]
                  ELSE rows[i]],
     updated |-> Matching(rows, course_name) # {},
     old_time |-> IF Matching(rows, course_name) = {} THEN None
                  ELSE rows[Max(Matching(rows, course_name))].Time]

\* update_schedule_time on the rows read from the file: the rows it holds after
\* the loop, whether it rewrites the file and notifies, and the old_time it reports
update_schedule_time(rows, course_name, new_time) ==
    [rows |-> [i \in 1..Len(rows) |->
                  IF i \in Matching(rows, course_name)
                  THEN [rows[i] EXCEPT !.Time = new_time]
                  ELSE rows[i]],
     updated |-> \E i \in Matching(rows, course_name) : rows[i].Time # new_time,
     old_time |-> IF Matching(rows, course_name) = {} THEN None
                  ELSE rows[Max(Matching(rows, course_name))].Time]

\* "HH:MM - HH:MM" as login_and_attend formats the time shown by the site
TimeRange(start, end) == [ok |-> TRUE, sep |-> TRUE, start |-> start, end |-> end]

MathII == <<"Math", " ", "II">>

DriftRows ==
    {Row(Math, "Senin", 540, 630), Row(Math, "Selasa", 540, 630),
     Row(MathII, "Senin", 545, 635), Row(FisLab, "Senin", 540, 630),
     BadRow(Math, "Senin", FALSE), ShortRow(FisLab, "Senin"),
     LongRow(Math, "Senin", 540, 630)}

DriftFiles ==
    {Absent} \cup {File(rows) : rows \in UNION {[1..n -> DriftRows] : n \in 0..MaxRows}}

\* the attempts of the actor that are followed
MaxAttemptsRun == 2

\* csv.DictWriter(f, fieldnames=["CourseName", "Day", "Time"]).writerows(rows):
\* the rows are written one after the other, a missing cell as an empty one; a
\* row read from a line of more than three cells holds the key None, on which
\* the writer raises ValueError, the rows before it being written already
writerows(rows) ==
    LET long == {i \in 1..Len(rows) : rows[i].cells > 3}
        n == IF long = {} THEN Len(rows) ELSE Min(long) - 1
    IN  [rows |-> [i \in 1..n |-> [rows[i] EXCEPT !.cells = 3]],
         raised |-> long # {}]

\* login_and_attend, from the attendance page on: await update_schedule_time(
\* course_name, new_time, user["schedule_file"], user), whatever it raises being
\* caught and printed (open() of a missing file raises before anything is
\* written, the writer after the file was truncated), and then the submit, with
\* which the attempt ends as o: it returns True, or it raises "Could not submit
\* attendance"
CallUpdateScheduleTime(c, t, o) ==
    /\ Len(trace) < MaxAttemptsRun
    /\ LET r == update_schedule_time(files[1].rows, c, t)
           writes == files[1].st = "ok" /\ r.updated
           w == writerows(r.rows)
       IN  /\ files' = IF writes THEN [files EXCEPT ![1].rows = w.rows] ELSE files
           /\ sent' = IF writes /\ ~w.raised
                      THEN [sent EXCEPT ![1] = Append(@, [text |-> "corrected",
                                                          old |-> r.old_time, new |-> t])]
                      ELSE sent
           /\ trace' = Append(trace,
                  [op |-> "update_schedule_time", course |-> c, new_time |-> t,
                   attempt |-> o, wrote |-> writes,
                   notified |-> Len(sent'[1]) - Len(sent[1]),
                   before |-> files[1], after |-> files'[1]])
    /\ UNCHANGED <<now, env, pauseFlags, attFlags, pc, users, outcome, stagger,
                   tasks, sem, waiters, histVars>>

\* login_and_attend when the site shows the login page again: return False,
\* before the attendance page is opened
LoginRejected ==
    /\ Len(trace) < MaxAttemptsRun
    /\ trace' = Append(trace,
           [op |-> "login_and_attend", course |-> None, new_time |-> None,
            attempt |-> "rejected", wrote |-> FALSE, notified |-> 0,
            before |-> files[1], after |-> files[1]])
    /\ UNCHANGED <<now, env, files, pauseFlags, attFlags, pc, users, outcome,
                   stagger, tasks, sem, waiters, sent, histVars>>

InitDrift ==
    /\ now = [day |-> 1, tod |-> 540]
    /\ env = <<[username |-> Al, schedule_file |-> 1]>>
    /\ files \in {<<f>> : f \in DriftFiles}
    /\ pauseFlags = {}
    /\ attFlags = {}
    /\ pc = "gather"
    /\ users = load_users(env)
    /\ outcome = <<"dispatched">>
    /\ stagger = StaggerStep
    /\ tasks = <<>>
    /\ sem = SemaphoreCap
    /\ waiters = <<>>
    /\ sent = <<<<>>>>
    /\ succeeded = {}
    /\ failures = <<>>
    /\ rejected = {}
    /\ trace = <<>>

NextDrift ==
    \/ \E c \in {<<"math">>, FisLab}, t \in {TimeRange(540, 630), TimeRange(545, 635)},
          o \in {"success", "retriable"} :
           CallUpdateScheduleTime(c, t, o)
    \/ LoginRejected

SpecDrift == InitDrift /\ [][NextDrift]_vars

\* C15: when update_schedule_time is called twice in a row for the same course
\* with the same observed time, the two calls together write the file at most
\* once and notify at most once; the second call leaves the file as it was, does
\* not write and does not notify.
C15_DriftIdempotent ==
    \A i \in 1..(Len(trace) - 1) :
        (/\ trace[i].op = "update_schedule_time"
         /\ trace[i + 1].op = "update_schedule_time"
         /\ trace[i + 1].course = trace[i].course
         /\ trace[i + 1].new_time = trace[i].new_time)
        => /\ ~trace[i + 1].wrote
           /\ trace[i + 1].notified = 0
           /\ trace[i + 1].after = trace[i + 1].before
           /\ trace[i].notified <= 1

\* the first of two equal calls rewrote two rows and notified, the second did
\* nothing
C15_Witness ==
    /\ Len(trace) >= 2
    /\ trace[1].course = trace[2].course
    /\ trace[1].new_time = trace[2].new_time
    /\ trace[1].wrote
    /\ trace[1].notified = 1
    /\ Cardinality({r \in 1..Len(trace[1].before.rows) :
                       trace[1].before.rows[r] # trace[1].after.rows[r]}) = 2
    /\ ~trace[2].wrote
    /\ Len(sent[1]) = 1

-----------------------------------------------------------------------------
(* Overlapping passes: Passes processes run run_main at the same time over the
   one account al, whose class Math is in its window.  Each process has its own
   semaphore, task list and stagger counter; they share the flag directories.
   pc, outcome, tasks, sem and sent hold one entry per process, trace is the
   history of the starts and ends of the passes and of the actor's calls. *)

Passes == 2

Log(p, op, result) == trace' = Append(trace, [op |-> op, pass |-> p, result |-> result])

\* run_main up to the loop: cleanup_old_flags, load_users, Semaphore(4)
OverlapStart(p) ==
    /\ pc[p] = "idle"
    /\ attFlags' = cleanup_old_flags(attFlags, now)
    /\ pc' = [pc EXCEPT ![p] = "eval"]
    /\ Log(p, "start", "none")
    /\ UNCHANGED <<now, env, files, pauseFlags, users, outcome, stagger, tasks, sem,
                   waiters, sent, histVars>>

\* the loop of run_main for the account, and the gather if it dispatched
OverlapEval(p) ==
    /\ pc[p] = "eval"
    /\ LET u == users[1].username
           cls == get_current_class(files[1].rows, now)
           att == get_current_attempt(attFlags, u, cls, now)
           what == IF cls = None THEN "no_class"
                   ELSE IF has_attended_today(attFlags, u, cls, now) THEN "attended"
                   ELSE IF is_paused(pauseFlags, u, cls).ret THEN "paused"
                   ELSE IF att > MaxAttempts THEN "exhausted"
                   ELSE "dispatched"
       IN  /\ outcome' = [outcome EXCEPT ![p] = <<what>>]
           /\ pauseFlags' = IF what = "paused" THEN is_paused(pauseFlags, u, cls).flags
                            ELSE pauseFlags
           /\ sent' = IF what = "paused" THEN [sent EXCEPT ![p] = Append(@, "paused")]
                      ELSE sent
           /\ tasks' = IF what = "dispatched"
                       THEN [tasks EXCEPT ![p] = [u |-> 1, cls |-> cls, wait |-> 0,
                                                  att |-> att, st |-> "sleep",
                                                  out |-> "none", exc |-> "none"]]
                       ELSE tasks
           /\ pc' = [pc EXCEPT ![p] = IF what = "dispatched" THEN "gather" ELSE "done"]
           /\ IF what = "dispatched" THEN UNCHANGED trace ELSE Log(p, "end", what)
    /\ UNCHANGED <<now, env, files, attFlags, users, stagger, sem, waiters, histVars>>

\* the task enters "async with semaphore" and calls login_and_attend
OverlapInvoke(p) ==
    /\ pc[p] = "gather"
    /\ tasks[p].st = "sleep"
    /\ CanAcquire(sem[p])
    /\ sem' = [sem EXCEPT ![p] = @ - 1]
    /\ tasks' = [tasks EXCEPT ![p] = Enter(@)]
    /\ Log(p, "invoke", "none")
    /\ UNCHANGED <<now, env, files, pauseFlags, attFlags, pc, users, outcome, stagger,
                   waiters, sent, histVars>>

\* login_and_attend returns True, returns False or raises; the except branch
\* updates the retry flags and notifies
OverlapReturn(p, result) ==
    /\ pc[p] = "gather"
    /\ tasks[p].st = "run"
    /\ tasks' = [tasks EXCEPT ![p].st = "hold", ![p].out = result]
    /\ attFlags' = IF result = "retry"
                   THEN retry_flags(attFlags, users[1].username, tasks[p].cls,
                                    DateStr(now), tasks[p].att)
                   ELSE attFlags
    /\ sent' = [sent EXCEPT ![p] =
                   @ \o (CASE result = "success" -> <<"success">>
                           [] result = "login" -> <<"login_failed">>
                           [] result = "retry" -> failure_notification(tasks[p].att))]
    /\ succeeded' = IF result = "success"
                    THEN succeeded \cup {Key(users[1].username, tasks[p].cls, now)}
                    ELSE succeeded
    /\ Log(p, "return", result)
    /\ UNCHANGED <<now, env, files, pauseFlags, pc, users, outcome, stagger, sem,
                   waiters, failures, rejected>>

\* notify_user returns; after a success the success flag is written and the retry
\* flags are cleared; the semaphore is released, gather and run_main return
OverlapFinish(p) ==
    /\ pc[p] = "gather"
    /\ tasks[p].st = "hold"
    /\ attFlags' = IF tasks[p].out = "success"
                   THEN success_flags(attFlags, users[1].username, tasks[p].cls,
                                      DateStr(now))
                   ELSE attFlags
    /\ tasks' = [tasks EXCEPT ![p].st = "done"]
    /\ sem' = [sem EXCEPT ![p] = @ + 1]
    /\ pc' = [pc EXCEPT ![p] = "done"]
    /\ Log(p, "end", tasks[p].out)
    /\ UNCHANGED <<now, env, files, pauseFlags, users, outcome, stagger, waiters,
                   sent, histVars>>

NoTask ==
    [u |-> 1, cls |-> None, wait |-> 0, att |-> 0, st |-> "none", out |-> "none",
     exc |-> "none"]

\* before the passes: al has no flag of today, or the retry flag of one failure
InitOverlap ==
    /\ now = [day |-> 1, tod |-> 540]
    /\ env = <<[username |-> Al, schedule_file |-> 1]>>
    /\ files = <<File(AlSchedule)>>
    /\ pauseFlags = {}
    /\ attFlags \in {{}, {RetryFlag(Al, Math, Dates[1], 1)}}
    /\ pc = [p \in 1..Passes |-> "idle"]
    /\ users = load_users(env)
    /\ outcome = [p \in 1..Passes |-> <<>>]
    /\ stagger = 0
    /\ tasks = [p \in 1..Passes |-> NoTask]
    /\ sem = [p \in 1..Passes |-> SemaphoreCap]
    /\ waiters = <<>>
    /\ sent = [p \in 1..Passes |-> <<>>]
    /\ succeeded = {}
    /\ failures = <<>>
    /\ rejected = {}
    /\ trace = <<>>

NextOverlap ==
    \/ \E p \in 1..Passes : OverlapStart(p)
    \/ \E p \in 1..Passes : OverlapEval(p)
    \/ \E p \in 1..Passes : OverlapInvoke(p)
    \/ \E p \in 1..Passes, result \in {"success", "login", "retry"} : OverlapReturn(p, result)
    \/ \E p \in 1..Passes : OverlapFinish(p)

SpecOverlap == InitOverlap /\ [][NextOverlap]_vars

\* two passes overlapped: one started between the start and the end of another
Overlapped ==
    \E i, j, k \in 1..Len(trace) :
        /\ i < j /\ j < k
        /\ trace[i].op = "start" /\ trace[j].op = "start" /\ trace[k].op = "end"
        /\ trace[k].pass = trace[i].pass

AllDone == \A p \in 1..Passes : pc[p] = "done"

\* C16 as claimed: after passes that overlapped have all finished, at most one
\* retry flag of (al, Math, today) exists, no retry flag of that key exists next
\* to its success flag, and login_and_attend was not called after it had returned
\* True.
C16_Original ==
    (AllDone /\ Overlapped) =>
        /\ Cardinality(RetryFlagsOf(attFlags, Key(Al, Math, now))) <= 1
        /\ ~ /\ SuccessFlag(Al, Math, DateStr(now)) \in attFlags
             /\ RetryFlagsOf(attFlags, Key(Al, Math, now)) # {}
        /\ ~ \E i, j \in 1..Len(trace) :
                /\ i < j
                /\ trace[i].op = "return" /\ trace[i].result = "success"
                /\ trace[j].op = "invoke"

-----------------------------------------------------------------------------
(* Claims about the bookkeeping of an attempt *)

\* this step ends the attempt of task k: notify_user has returned, the flags of
\* the outcome are written, the slot is given back
Completes(k) ==
    /\ Len(tasks') = Len(tasks)
    /\ tasks[k].st = "hold"
    /\ tasks'[k].st = "done"

\* C17: when an attempt whose outcome is Success completes, the success flag of
\* (account, course, today) exists and no retry flag of (account, course, today)
\* exists, whichever retry flags existed before.
C17_SuccessLeavesOnlySuccessFlag ==
    [][\A k \in 1..Len(tasks) :
          (Completes(k) /\ tasks[k].out = "success")
          => /\ SuccessFlag(TaskUser(k).username, tasks[k].cls, DateStr(now)) \in attFlags'
             /\ RetryFlagsOf(attFlags', TaskKey(k)) = {}]_vars

\* a second attempt, made with the retry flag of the first failure present, has
\* succeeded and completed
C17_Witness ==
    \E k \in 1..Len(tasks) :
        /\ tasks[k].st = "done"
        /\ tasks[k].out = "success"
        /\ tasks[k].att = 2
        /\ Fails(TaskKey(k)) = 1
        /\ SuccessFlag(TaskUser(k).username, tasks[k].cls, DateStr(now)) \in attFlags

-----------------------------------------------------------------------------
(* One pass, from the top of the loop of run_main, over the flags that earlier
   passes and bot commands may have left, with notifications that may not
   arrive.  Each account of .env says
   through which channel it is notified and what notify_user does for it in this
   pass: "delivers", "fails" (requests.post or user.send raises, or times out;
   send_telegram and send_discord catch it and return) or "hangs" (send_discord
   awaits discord_ready, which is set by on_ready alone while
   discord_client.start keeps trying to connect). *)

Channels ==
    {[use_discord |-> FALSE, notify |-> n] : n \in {"delivers", "fails"}}
        \cup {[use_discord |-> TRUE, notify |-> n] : n \in {"delivers", "fails", "hangs"}}

NotifyAccount(username, schedule_file, channel) ==
    [username |-> username, schedule_file |-> schedule_file,
     use_discord |-> channel.use_discord, notify |-> channel.notify]

\* "await notify_user(...)" for account i of the pass comes back
NotifyReturns(i) == users[i].notify # "hangs"

EvalPausedNotified ==
    /\ Evaluating
    /\ NotifyReturns(Cur)
    /\ EvalPaused

\* the loop of run_main awaits notify_user for the paused account, for ever
EvalPausedHangs ==
    /\ Evaluating
    /\ ~NotifyReturns(Cur)
    /\ CurFile.st = "ok"
    /\ CurClass # None
    /\ ~has_attended_today(attFlags, CurUser.username, CurClass, now)
    /\ is_paused(pauseFlags, CurUser.username, CurClass).ret
    /\ pauseFlags' = is_paused(pauseFlags, CurUser.username, CurClass).flags
    /\ Notify(Cur, "paused")
    /\ pc' = "blocked"
    /\ UNCHANGED <<now, env, files, attFlags, users, outcome, stagger, tasks, sem,
                   waiters, histVars, trace>>

\* the task's "await notify_user(...)" comes back and the task goes on to its end
FinishNotified(k) ==
    /\ pc = "gather"
    /\ NotifyReturns(tasks[k].u)
    /\ Finish(k)

InitNotify ==
    /\ now \in {[day |-> 1, tod |-> m] : m \in {530, 540}}
    /\ env \in {<<NotifyAccount(Al, 1, c1), NotifyAccount(Bo, 2, c2)>> :
                   c1 \in Channels, c2 \in Channels}
    /\ \A a, b \in 1..Len(env) :
          (env[a].use_discord /\ env[b].use_discord)
              => (env[a].notify = "hangs" <=> env[b].notify = "hangs")
    /\ files = <<File(AlSchedule), File(BoSchedule)>>
    /\ pauseFlags \in SUBSET {PauseUserFlag(Al), PauseOnceFlag(Bo, FisLab)}
    /\ attFlags \in SUBSET {RetryFlag(Al, Math, Dates[1], 1),
                             RetryFlag(Al, Math, Dates[1], 2),
                             RetryFlag(Bo, FisLab, Dates[1], 2),
                             SuccessFlag(Bo, FisLab, Dates[1])}
    /\ pc = "eval"
    /\ users = load_users(env)
    /\ outcome = <<>>
    /\ stagger = 0
    /\ tasks = <<>>
    /\ sem = SemaphoreCap
    /\ waiters = <<>>
    /\ sent = [i \in 1..Len(env) |-> <<>>]
    /\ succeeded = {}
    /\ failures = <<>>
    /\ rejected = {}
    /\ trace = <<>>

NextNotify ==
    \/ EvalNoClass
    \/ EvalAttended
    \/ EvalPausedNotified
    \/ EvalPausedHangs
    \/ EvalExhausted
    \/ EvalDispatch
    \/ Gather
    \/ \E k \in 1..Len(tasks) : Wake(k)
    \/ \E k \in 1..Len(tasks) : ActorReturnsTrue(k)
    \/ \E k \in 1..Len(tasks) : ActorReturnsFalse(k)
    \/ \E k \in 1..Len(tasks) : ActorRaises(k)
    \/ \E k \in 1..Len(tasks) : FinishNotified(k)
    \/ PassEnd

SpecNotify == InitNotify /\ [][NextNotify]_vars

\* the pass has come as far as it ever will
Settled == ~ENABLED NextNotify

\* C18 as claimed: whatever notify_user does for an account, the pass is not cut
\* short and the bookkeeping is that of the outcomes: once the pass has come as
\* far as it will, every account has been evaluated, every dispatched attempt has
\* run to its end, a Success has its success flag and no retry flag, a retriable
\* failure has the retry flag of its attempt.
C18_Original ==
    Settled =>
        /\ pc = "done"
        /\ Len(outcome) = Len(users)
        /\ \A k \in 1..Len(tasks) :
              /\ tasks[k].st = "done"
              /\ tasks[k].out = "success" =>
                    /\ SuccessFlag(TaskUser(k).username, tasks[k].cls, DateStr(now))
                           \in attFlags
                    /\ RetryFlagsOf(attFlags, TaskKey(k)) = {}
              /\ tasks[k].out = "retry" =>
                    RetryFlag(TaskUser(k).username, tasks[k].cls, DateStr(now),
                              tasks[k].att) \in attFlags

\* C19: when the call of login_and_attend raises an exception that is none of the
\* actor's contract outcomes, the attempt is booked as a retriable failure: the
\* retry flag of the current attempt is written, the one of the previous attempt
\* is removed, no other flag changes, and the pass goes on (gather is not left,
\* the other tasks are as they were, the task goes on to its end).
C19_UnclassifiedIsRetriable ==
    [][\A k \in 1..Len(tasks) :
          (/\ Len(tasks') = Len(tasks)
           /\ tasks[k].st = "run"
           /\ tasks'[k].exc = "other")
          => LET u == TaskUser(k).username
                 this == RetryFlag(u, tasks[k].cls, DateStr(now), tasks[k].att)
                 prev == RetryFlag(u, tasks[k].cls, DateStr(now), tasks[k].att - 1)
             IN  /\ tasks'[k].out = "retry"
                 /\ tasks'[k].st = "hold"
                 /\ this \in attFlags'
                 /\ tasks[k].att > 1 => prev \notin attFlags'
                 /\ attFlags' \ {this} = attFlags \ {this, prev}
                 /\ pc' = "gather"
                 /\ \A j \in 1..Len(tasks) : j # k => tasks'[j] = tasks[j]]_vars

\* a pass has ended in which the second attempt of an account died of such an
\* exception while the task of another account ran to its end as well
C19_Witness ==
    /\ pc = "done"
    /\ \E k, j \in 1..Len(tasks) :
          /\ j # k
          /\ tasks[k].exc = "other"
          /\ tasks[k].att = 2
          /\ tasks[k].st = "done"
          /\ tasks[j].st = "done"
          /\ RetryFlagsOf(attFlags, TaskKey(k))
                = {RetryFlag(TaskUser(k).username, tasks[k].cls, DateStr(now), 2)}

\* C20: what get_next_class returns is, among the rows of any weekday whose start
\* is strictly later than now's time of day, the course of a row with the smallest
\* start; it is none when no row starts later than now, when the file is absent
\* and when it is empty.
C20_NextClassIsEarliestLater ==
    \A i \in Called("get_next_class") :
        ~trace[i].raised =>
            LET rows == files[1].rows
                later == {r \in 1..Len(rows) :
                             rows[r].Time.ok /\ rows[r].Time.start > now.tod}
            IN  /\ files[1].st \in {"absent", "empty"} => trace[i].ret = None
                /\ later = {} => trace[i].ret = None
                /\ later # {} =>
                      \E r \in later :
                          /\ trace[i].ret = rows[r].CourseName
                          /\ \A q \in later : rows[r].Time.start <= rows[q].Time.start

\* on Monday at 09:00 the row of Monday 09:00 is passed over and the row of
\* Tuesday 09:05 is the next class
C20_Witness ==
    /\ Called("get_next_class") # {}
    /\ now = [day |-> 1, tod |-> 540]
    /\ files[1].rows = <<Row(Math, "Senin", 540, 630), Row(FisLab, "Selasa", 545, 635)>>
    /\ ~trace[1].raised
    /\ trace[1].ret = FisLab

-----------------------------------------------------------------------------
(* Claims about the resolvers on timetables with overlapping or malformed rows *)

\* the rows of the timetable that get_current_class can return now
Qualifying ==
    {r \in 1..Len(files[1].rows) :
        InWindow(files[1].rows[r], day_map[WeekdayName(now)], now.tod)}

\* C21 as claimed: when several rows of today qualify at the same instant,
\* get_current_class returns the course of one with the earliest start, wherever
\* the rows stand in the file.
C21_Original ==
    \A i \in Called("get_current_class") :
        Cardinality(Qualifying) > 1 =>
            \E r \in Qualifying :
                /\ trace[i].ret = files[1].rows[r].CourseName
                /\ \A q \in Qualifying :
                      files[1].rows[r].Time.start <= files[1].rows[q].Time.start

\* a row with three cells and a time range that parses
WellFormed(row) == row.cells = 3 /\ row.Time.ok

\* the timetable file without its malformed rows
Cleaned(file) == [file EXCEPT !.rows = SelectSeq(file.rows, WellFormed)]

\* C22 as claimed: a row with a missing cell, an extra cell or a time range that
\* does not parse is skipped by get_current_class and by get_next_class (of either
\* bot): the call does not fail and returns what it returns for the well-formed
\* rows of the file alone.
C22_Original ==
    \A i \in 1..Len(trace) :
        /\ ~trace[i].raised
        /\ trace[i].op = "get_current_class"
              => trace[i].ret = get_current_class(Cleaned(files[1]).rows, now)
        /\ trace[i].op \in {"get_next_class", "discord_get_next_class"}
              => trace[i].ret = get_next_class(Cleaned(files[1]), now)

-----------------------------------------------------------------------------
(* Claims about the pass: flags, pause gate, stagger *)

\* C23: when the attempt of task k fails retriably, and when that task completes,
\* exactly one retry flag of (account, course, today) exists: the one that carries
\* the number of the attempt that failed.
C23_OnlyLatestRetryFlag ==
    [][\A k \in 1..Len(tasks) :
          (/\ Len(tasks') = Len(tasks)
           /\ tasks'[k].out = "retry"
           /\ \/ tasks[k].st = "run" /\ tasks'[k].st = "hold"
              \/ Completes(k))
          => RetryFlagsOf(attFlags', TaskKey(k))
                = {RetryFlag(TaskUser(k).username, tasks[k].cls, DateStr(now),
                             tasks[k].att)}]_vars

\* the second failure of the day has completed and attempt_2 is the only retry flag
C23_Witness ==
    \E k \in 1..Len(tasks) :
        /\ tasks[k].out = "retry"
        /\ tasks[k].att = 2
        /\ tasks[k].st = "done"
        /\ Fails(TaskKey(k)) = 2
        /\ RetryFlag(TaskUser(k).username, tasks[k].cls, DateStr(now), 2) \in attFlags
        /\ RetryFlag(TaskUser(k).username, tasks[k].cls, DateStr(now), 1) \notin attFlags

\* the success and retry flags of af that were written on the day of t
DatedToday(af, t) == {f \in af : IsAttendanceFlag(f) => DateStamp(f) = DateStr(t)}

\* C24: the step that starts a pass removes the success and retry flags dated
\* before today; the loop's turn for an account removes or adds none, finds no
\* success or retry flag dated before today, and decides as it would with the
\* flags of today alone.
C24_CollectedOnceBeforeEvaluation ==
    [][/\ (~PassRunning /\ pc' \in {"eval", "gather"})
            => attFlags' = DatedToday(attFlags, now)
       /\ (Evaluating /\ pc' \in {"eval", "crashed"} /\ outcome' # outcome)
            => /\ attFlags' = attFlags
               /\ attFlags = DatedToday(attFlags, now)
       /\ (HasClass /\ EvalStep)
            => /\ has_attended_today(attFlags, CurUser.username, CurClass, now)
                    = has_attended_today(DatedToday(attFlags, now),
                                         CurUser.username, CurClass, now)
               /\ get_current_attempt(attFlags, CurUser.username, CurClass, now)
                    = get_current_attempt(DatedToday(attFlags, now),
                                          CurUser.username, CurClass, now)]_vars

\* on Tuesday al is dispatched at attempt 1 and the flags of Monday's two failures
\* are gone
C24_Witness ==
    /\ now.day = 2
    /\ pc = "eval"
    /\ \E i \in 1..Len(outcome) :
          /\ outcome[i] = "dispatched"
          /\ users[i].username = Al
    /\ \E k \in 1..Len(tasks) : tasks[k].att = 1 /\ TaskUser(k).username = Al
    /\ attFlags = {}
    /\ failures = <<>>
    /\ rejected = {}
    /\ succeeded = {}

\* C25: the loop's turn for an account that has a current class, no success flag
\* of today and a pause in force sends the account the notification of the skip,
\* appends no task and leaves ATTENDANCE_FLAG_DIR as it was; no task of the pass
\* belongs to an account the pass skipped as paused.
C25_PausedSkipKeepsFlags ==
    [][/\ (/\ HasClass /\ EvalStep
           /\ ~has_attended_today(attFlags, CurUser.username, CurClass, now)
           /\ is_paused(pauseFlags, CurUser.username, CurClass).ret)
          => /\ outcome'[Cur] = "paused"
             /\ sent' = [sent EXCEPT ![Cur] = Append(@, "paused")]
             /\ tasks' = tasks
             /\ attFlags' = attFlags
       /\ \A i \in 1..Len(outcome') :
             outcome'[i] = "paused" => \A k \in 1..Len(tasks') : tasks'[k].u # i]_vars

\* al was skipped as paused with the retry flag of a first failure in place, and
\* the pass went on to dispatch bo
C25_Witness ==
    /\ Len(outcome) = 2
    /\ outcome[1] = "paused"
    /\ outcome[2] = "dispatched"
    /\ users[1].username = Al
    /\ sent[1] = <<"paused">>
    /\ RetryFlag(Al, Math, DateStr(now), 1) \in attFlags
    /\ Len(tasks) = 1

\* C26: in a pass, FLAG_DIR changes only in the turn of the loop for an account
\* that has a current class and no success flag of today, and then as one call of
\* is_paused for that account and class changes it; each account has one turn
\* (the loop moves on, or the pass stops there).  So the turn of an account
\* without a current class, or with the success flag of today, leaves a one-time
\* pause flag in place.
C26_PauseReadOncePerAccount ==
    [][/\ pauseFlags' # pauseFlags
            => /\ HasClass
               /\ SuccessFlag(CurUser.username, CurClass, DateStr(now)) \notin attFlags
               /\ pauseFlags' = is_paused(pauseFlags, CurUser.username, CurClass).flags
               /\ \/ outcome' = Append(outcome, "paused")
                  \/ pc' = "blocked" /\ outcome' = outcome
       /\ outcome' # outcome
            => /\ Len(outcome') = Len(outcome) + 1
               /\ SubSeq(outcome', 1, Len(outcome)) = outcome
       /\ (/\ Evaluating
           /\ outcome' # outcome
           /\ \/ CurClass = None
              \/ SuccessFlag(CurUser.username, CurClass, DateStr(now)) \in attFlags)
            => pauseFlags' = pauseFlags]_vars

\* bo, with the success flag of today, was skipped as attended and its one-time
\* pause is still there
C26_Witness ==
    /\ Len(outcome) = 2
    /\ outcome[2] = "attended"
    /\ PauseOnceFlag(Bo, FisLab) \in pauseFlags
    /\ SuccessFlag(Bo, FisLab, DateStr(now)) \in attFlags

\* C27 as claimed: only an attempt that ends as Success rewrites the timetable
\* file or sends the schedule-corrected notification.
C27_Original ==
    \A i \in 1..Len(trace) :
        trace[i].attempt # "success" => ~trace[i].wrote /\ trace[i].notified = 0

\* C28 as claimed: a call of update_schedule_time leaves the number of rows, the
\* CourseName and Day of every row, and every row whose course name does not
\* start with the given name as they were, whatever rows the file holds.
C28_Original ==
    \A i \in Called("update_schedule_time") :
        /\ Len(trace[i].after.rows) = Len(trace[i].before.rows)
        /\ \A r \in 1..Len(trace[i].before.rows) :
              /\ trace[i].after.rows[r].CourseName = trace[i].before.rows[r].CourseName
              /\ trace[i].after.rows[r].Day = trace[i].before.rows[r].Day
              /\ r \notin Matching(trace[i].before.rows, trace[i].course)
                    => trace[i].after.rows[r] = trace[i].before.rows[r]

\* C29: the k-th task of a pass was given the delay 2 * (k - 1) when it was
\* appended, the counter stands at 2 for each task appended (an account that was
\* skipped moved it by nothing), no task was appended for a skipped account, and
\* the slots taken from the semaphore are those of the tasks inside "async with
\* semaphore": a task that sleeps, or queues for a slot, holds none.
C29_StaggerByEnqueueOrder ==
    /\ \A k \in 1..Len(tasks) : tasks[k].wait = 2 * (k - 1)
    /\ stagger = 2 * Len(tasks)
    /\ Len(tasks) = Cardinality({i \in 1..Len(outcome) : outcome[i] = "dispatched"})
    /\ \A k \in 1..(Len(tasks) - 1) : tasks[k].u < tasks[k + 1].u
    /\ sem = SemaphoreCap
               - Cardinality({k \in 1..Len(tasks) : tasks[k].st \in {"run", "hold"}})

\* the second task still sleeps its two seconds while the first holds a slot
C29_Witness ==
    /\ Len(tasks) = 2
    /\ tasks[1].st = "run"
    /\ tasks[2].st = "sleep"
    /\ tasks[2].wait = 2
    /\ sem = SemaphoreCap - 1

-----------------------------------------------------------------------------
(* Progress of a pass.  The event loop runs whatever is ready: the loop of
   run_main, a task whose sleep is over, a task that holds a slot; the actor and
   notify_user return.  So a step of a running pass that stays possible is
   taken.  The invoker, the clock and the bot commands are under no obligation. *)

SpecFair == Spec /\ WF_vars(PassStep /\ PassRunning)

\* C30 as claimed: every task the loop has appended gets through the gate to one
\* of the outcomes Succeeded (success), Failed-Retriable (retry) or
\* Failed-Terminal (login) and is done, and the pass that waits in gather ends
\* with every slot given back.
C30_Original ==
    /\ \A k \in 1..GateUsers :
          (k <= Len(tasks) /\ tasks[k].st = "sleep")
              ~> (/\ k <= Len(tasks)
                  /\ tasks[k].st = "done"
                  /\ tasks[k].out \in {"success", "retry", "login"})
    /\ (pc = "gather") ~> (pc = "done" /\ sem = SemaphoreCap)

-----------------------------------------------------------------------------
(* One pass in which open(flag, "w") may raise (disk full, directory not
   writable): the pass of the specification above, with the two places of
   limited_login_and_attend that write a flag failing. *)

\* the success branch: notify_user has returned, open(flag_file, "w") raises
\* inside the try, so the except branch runs for the attempt that succeeded: the
\* retry flag of the attempt is written if this second open goes through (w), the
\* previous retry flag is removed, the failure is notified, the slot is released
SuccessFlagWriteFails(k) ==
    /\ pc = "gather"
    /\ tasks[k].st = "hold"
    /\ tasks[k].out = "success"
    /\ NotifyReturns(tasks[k].u)
    /\ \E w \in BOOLEAN :
          attFlags' = IF w
                      THEN retry_flags(attFlags, TaskUser(k).username, tasks[k].cls,
                                       DateStr(now), tasks[k].att)
                      ELSE attFlags \ {RetryFlag(TaskUser(k).username, tasks[k].cls,
                                                 DateStr(now), tasks[k].att - 1)}
    /\ sent' = [sent EXCEPT ![tasks[k].u] = @ \o failure_notification(tasks[k].att)]
    /\ IF waiters # <<>>
       THEN /\ tasks' = [tasks EXCEPT ![k].st = "done", ![k].exc = "store",
                                      ![Head(waiters)] = Enter(@)]
            /\ waiters' = Tail(waiters)
            /\ UNCHANGED sem
       ELSE /\ tasks' = [tasks EXCEPT ![k].st = "done", ![k].exc = "store"]
            /\ sem' = sem + 1
            /\ UNCHANGED waiters
    /\ UNCHANGED <<now, env, files, pauseFlags, pc, users, outcome, stagger,
                   histVars, trace>>

\* the except branch: open(retry_flag, "w") raises and is caught with a warning;
\* the previous retry flag is removed and the failure is notified as usual
RetryFlagWriteFails(k) ==
    /\ pc = "gather"
    /\ tasks[k].st = "run"
    /\ attFlags' = attFlags \ {RetryFlag(TaskUser(k).username, tasks[k].cls,
                                          DateStr(now), tasks[k].att - 1)}
    /\ tasks' = [tasks EXCEPT ![k].st = "hold", ![k].out = "retry",
                              ![k].exc = "retriable"]
    /\ sent' = [sent EXCEPT ![tasks[k].u] = @ \o failure_notification(tasks[k].att)]
    /\ failures' = [x \in DOMAIN failures \cup {TaskKey(k)} |->
                      IF x = TaskKey(k) THEN Fails(x) + 1 ELSE failures[x]]
    /\ UNCHANGED <<now, env, files, pauseFlags, pc, users, outcome, stagger, sem,
                   waiters, succeeded, rejected, trace>>

NextStore ==
    \/ NextNotify
    \/ \E k \in 1..Len(tasks) : SuccessFlagWriteFails(k)
    \/ \E k \in 1..Len(tasks) : RetryFlagWriteFails(k)

SpecStore == InitNotify /\ [][NextStore]_vars

\* C31 as claimed: an attempt that ended as Success and has run to its end was
\* not notified as a failure and has left no retry flag, also when the write of
\* its success flag failed.
C31_Original ==
    \A k \in 1..Len(tasks) :
        (tasks[k].st = "done" /\ tasks[k].out = "success")
        => /\ \A n \in 1..Len(sent[tasks[k].u]) :
                 sent[tasks[k].u][n] \notin {"attempt1", "final"}
           /\ RetryFlagsOf(attFlags, TaskKey(k)) = {}

-----------------------------------------------------------------------------
(* The flag store as the core uses it: a flag is created with open(path, "w"),
   and removed with os.remove inside try/except after os.path.exists said it is
   there (is_paused, _clear_retry_flags, the except branch of
   limited_login_and_attend).  Another pass may remove the flag between the two
   calls. *)

\* mutant: os.remove outside any try: FileNotFoundError reaches the caller
remove_unguarded(store, f) ==
    [store |-> store \ {f}, raised |-> f \notin store]

\* "try: os.remove(path) except Exception: ..." on the store as it is when
\* os.remove runs: os.remove raises FileNotFoundError for an absent file, the
\* except clause keeps it from the caller
remove_guarded(store, f) ==
    [store |-> store \ {f}, raised |-> FALSE]

\* with open(path, "w") as f: f.write(...): an existing file is truncated and
\* written again
FlagCreate(f) ==
    /\ attFlags' = attFlags \cup {f}
    /\ UNCHANGED <<now, env, files, pauseFlags, passVars, histVars>>
    /\ trace' = <<[op |-> "create", flag |-> f, before |-> attFlags, raced |-> FALSE,
                   after |-> attFlags', raised |-> FALSE]>>

\* "if os.path.exists(path): try: os.remove(path) ...": nothing is done for a
\* flag that is not there; raced says that another pass removed the flag after
\* os.path.exists returned True
FlagRemove(f, raced) ==
    /\ raced => f \in attFlags
    /\ LET r == IF f \in attFlags
                THEN remove_guarded(IF raced THEN attFlags \ {f} ELSE attFlags, f)
                ELSE [store |-> attFlags, raised |-> FALSE]
       IN  /\ attFlags' = r.store
           /\ UNCHANGED <<now, env, files, pauseFlags, passVars, histVars>>
           /\ trace' = <<[op |-> "remove", flag |-> f, before |-> attFlags,
                          raced |-> raced, after |-> attFlags', raised |-> r.raised]>>

NextFlagOps ==
    \E f \in {SuccessFlag(Al, Math, DateStr(now)), RetryFlag(Al, Math, DateStr(now), 1)} :
        \/ FlagCreate(f)
        \/ \E raced \in BOOLEAN : FlagRemove(f, raced)

SpecFlagOps == InitGC /\ [][NextFlagOps]_vars

\* C32: a create leaves the flag present and a remove leaves it absent, every
\* other flag as it was, and neither raises to its caller: also the create of a
\* flag that was there, the remove of a flag that was not, and the remove of a
\* flag that another pass took away after the existence check.
C32_FlagOpsIdempotent ==
    \A i \in 1..Len(trace) :
        /\ ~trace[i].raised
        /\ trace[i].op = "create"
              => trace[i].after = trace[i].before \cup {trace[i].flag}
        /\ trace[i].op = "remove"
              => trace[i].after = trace[i].before \ {trace[i].flag}
        /\ (trace[i].op = "create" /\ trace[i].flag \in trace[i].before)
              => trace[i].after = trace[i].before
        /\ (trace[i].op = "remove" /\ trace[i].flag \notin trace[i].before)
              => trace[i].after = trace[i].before

\* the flag was there at the check and gone at the remove
C32_Witness ==
    /\ Len(trace) = 1
    /\ trace[1].op = "remove"
    /\ trace[1].raced
    /\ trace[1].flag \in trace[1].before
    /\ trace[1].flag \notin attFlags

-----------------------------------------------------------------------------
(* The pause commands *)

\* C33: whatever pause, pauseonce and resume commands and whatever passes have
\* run, no account has its indefinite pause flag and a one-time pause flag at
\* the same time.
C33_PauseKindsExclusive ==
    \A a \in 1..Len(env) :
        ~(/\ PauseUserFlag(env[a].username) \in pauseFlags
          /\ once_flags(pauseFlags, env[a].username) # {})

\* al holds a one-time pause while bo is paused indefinitely, during a pass
C33_Witness ==
    /\ PauseOnceFlag(Al, Math) \in pauseFlags
    /\ PauseUserFlag(Bo) \in pauseFlags
    /\ pc = "eval"

\* C34 as claimed: the flag that pauseonce writes for the course get_next_class
\* returned is the flag is_paused looks for when get_current_class returns that
\* row's course, whatever white space the course name holds.
C34_Original ==
    \A i \in Called("get_next_class") \cup Called("discord_get_next_class") :
        (~trace[i].raised /\ trace[i].ret # None)
        => \A r \in 1..Len(files[1].rows) :
              lstrip(files[1].rows[r].CourseName) = trace[i].ret
              => PauseOncePrefix(Al) \o replace_space(trace[i].ret) \o <<".flag">>
                     = PauseOnceFlag(Al, files[1].rows[r].CourseName)

\* C35: pauseonce writes nothing while a one-time pause flag of the account
\* exists, it leaves an account that had none with at most one, and is_paused
\* adds no flag: so an account that starts with no one-time pause flag never has
\* two.
C35_AtMostOneOncePause ==
    \A i \in 1..Len(trace) :
        LET e == trace[i]
        IN  /\ (e.op = "pauseonce" /\ once_flags(e.before, e.username) # {})
                  => e.after = e.before
            /\ (e.op = "pauseonce" /\ once_flags(e.before, e.username) = {})
                  => Cardinality(once_flags(e.after, e.username)) <= 1
            /\ e.op = "is_paused" => e.after \subseteq e.before

\* the one-time pause of Math is still there when Fis Lab is the next class:
\* pauseonce is refused
C35_Witness ==
    \E i \in 1..Len(trace) :
        /\ trace[i].op = "pauseonce"
        /\ trace[i].course = FisLab
        /\ once_flags(trace[i].before, trace[i].username)
               = {PauseOnceFlag(trace[i].username, Math)}
        /\ PauseUserFlag(trace[i].username) \notin trace[i].before
        /\ ~trace[i].ret

-----------------------------------------------------------------------------
(* Accounts whose user names begin alike: the resume command and the deletion
   of an account (telegbot.py, discordbot.py), with is_paused, on any FLAG_DIR
   that holds pause flags of the three accounts *)

AccountNames == <<Al, <<"al", "_", "x">>, <<"al", "ice">>>>

\* delete_credentials, the loop over os.listdir(FLAG_DIR): what is left
delete_credentials_flags(pf, username) ==
    {f \in pf : /\ ~IsPrefix(<<"pause_user_">> \o username, f)
                /\ ~IsPrefix(PauseOncePrefix(username), f)}

\* the resume command of account a
CallResume(a) ==
    /\ Len(trace) < MaxCalls
    /\ pauseFlags' = cmd_resume_flags(pauseFlags, env[a].username)
    /\ trace' = Append(trace,
           [op |-> "resume", username |-> env[a].username, course |-> None,
            ret |-> TRUE, before |-> pauseFlags, after |-> pauseFlags'])
    /\ UNCHANGED <<now, env, files, attFlags, passVars, histVars>>

\* delete_credentials for account a: its block leaves .env, its schedule file
\* and the pause flags the loop takes for its own are removed
CallDeleteCredentials(a) ==
    /\ Len(trace) < MaxCalls
    /\ env' = [env EXCEPT ![a].username = <<>>]
    /\ files' = [files EXCEPT ![env[a].schedule_file] = Absent]
    /\ pauseFlags' = delete_credentials_flags(pauseFlags, env[a].username)
    /\ trace' = Append(trace,
           [op |-> "delete_credentials", username |-> env[a].username,
            course |-> None, ret |-> TRUE, before |-> pauseFlags,
            after |-> pauseFlags'])
    /\ UNCHANGED <<now, attFlags, passVars, histVars>>

InitAccounts ==
    /\ now = [day |-> 1, tod |-> ClockTicks[1]]
    /\ env = [i \in 1..Len(AccountNames) |->
                 [username |-> AccountNames[i], schedule_file |-> i]]
    /\ files = [i \in 1..Len(AccountNames) |-> File(AlSchedule)]
    /\ pauseFlags \in SUBSET ({PauseUserFlag(AccountNames[i]) : i \in 1..Len(AccountNames)}
                                \cup {PauseOnceFlag(AccountNames[i], Math) :
                                         i \in 1..Len(AccountNames)})
    /\ attFlags = {}
    /\ NoPass
    /\ trace = <<>>

NextAccounts ==
    \E a \in {i \in 1..Len(env) : env[i].username # <<>>} :
        \/ CallResume(a)
        \/ CallDeleteCredentials(a)
        \/ CallIsPaused(a, Math)

SpecAccounts == InitAccounts /\ [][NextAccounts]_vars

\* C36 as claimed: after resume for an account, its indefinite pause flag and
\* its one-time pause flags are gone, is_paused is false for it until a pause is
\* set again (no command sets one here), and the pause flags of the other
\* accounts are there or not as before.
C36_Original ==
    \A i \in 1..Len(trace) :
        trace[i].op = "resume"
        => /\ PauseUserFlag(trace[i].username) \notin trace[i].after
           /\ PauseOnceFlag(trace[i].username, Math) \notin trace[i].after
           /\ \A j \in (i + 1)..Len(trace) :
                 (trace[j].op = "is_paused" /\ trace[j].username = trace[i].username)
                     => ~trace[j].ret
           /\ \A v \in 1..Len(AccountNames) :
                 AccountNames[v] # trace[i].username
                 => \A f \in {PauseUserFlag(AccountNames[v]),
                              PauseOnceFlag(AccountNames[v], Math)} :
                        f \in trace[i].after <=> f \in trace[i].before

\* C37 as claimed: deleting an account removes its indefinite and its one-time
\* pause flags, and leaves the pause flags of every other account, also of one
\* whose user name begins with the deleted name, there or not as before.
C37_Original ==
    \A i \in 1..Len(trace) :
        trace[i].op = "delete_credentials"
        => /\ PauseUserFlag(trace[i].username) \notin trace[i].after
           /\ PauseOnceFlag(trace[i].username, Math) \notin trace[i].after
           /\ \A v \in 1..Len(AccountNames) :
                 AccountNames[v] # trace[i].username
                 => \A f \in {PauseUserFlag(AccountNames[v]),
                              PauseOnceFlag(AccountNames[v], Math)} :
                        f \in trace[i].after <=> f \in trace[i].before

\* C38: the turn of an account that has a current class, no success flag of
\* today, its attempts used up and a pause in force is a paused skip: the
\* paused-skip notification is handed to notify_user, no task is appended, a
\* one-time pause of the course is consumed and an indefinite pause stays, in
\* every pass that finds the account so.
C38_PauseBeforeBudget ==
    [][(/\ HasClass
        /\ EvalStep
        /\ SuccessFlag(CurUser.username, CurClass, DateStr(now)) \notin attFlags
        /\ get_current_attempt(attFlags, CurUser.username, CurClass, now) > MaxAttempts
        /\ \/ PauseUserFlag(CurUser.username) \in pauseFlags
           \/ PauseOnceFlag(CurUser.username, CurClass) \in pauseFlags)
       => /\ outcome' = Append(outcome, "paused")
          /\ sent' = [sent EXCEPT ![Cur] = Append(@, "paused")]
          /\ tasks' = tasks
          /\ pauseFlags' = IF PauseUserFlag(CurUser.username) \in pauseFlags
                           THEN pauseFlags
                           ELSE pauseFlags \ {PauseOnceFlag(CurUser.username, CurClass)}]_vars

\* al, exhausted and paused indefinitely, and bo, exhausted with a one-time
\* pause of Fis Lab, were both notified of the skip; bo's pause is consumed
C38_Witness ==
    /\ Len(outcome) = 2
    /\ outcome = <<"paused", "paused">>
    /\ sent = <<<<"paused">>, <<"paused">>>>
    /\ RetryFlag(Al, Math, DateStr(now), 2) \in attFlags
    /\ RetryFlag(Bo, FisLab, DateStr(now), 2) \in attFlags
    /\ SuccessFlag(Bo, FisLab, DateStr(now)) \notin attFlags
    /\ pauseFlags = {PauseUserFlag(Al)}

\* C39 as claimed: after update_schedule_time on a timetable that is there, every
\* row whose course name starts with the given name, of whatever Day, has the
\* observed time; at most one notification is sent, one is sent when the file
\* was rewritten, and it reports the old time of the last matching row.
C39_Original ==
    \A i \in Called("update_schedule_time") :
        LET e == trace[i]
            m == Matching(e.before.rows, e.course)
            n == Cardinality({j \in 1..i : trace[j].notified = 1})
        IN  e.before.st = "ok"
            => /\ \A r \in m : /\ r <= Len(e.after.rows)
                               /\ e.after.rows[r].Time = e.new_time
               /\ e.notified <= 1
               /\ e.wrote => e.notified = 1
               /\ e.notified = 1
                     => /\ sent[1][n].old = e.before.rows[Max(m)].Time
                        /\ sent[1][n].new = e.new_time

====
